---- MODULE Spec2Model ----
\* Verification model of the pipeline execution engine of ZOTERORAGpy:
\*   - the process lifecycle tracker   (app/services/process_manager.py)
\*   - the progress streaming protocol (app/utils/sse_helpers.py)
\*   - the resumable extraction engine (scripts/rad_dataframe.py)
\* Each component has its own specification (SpecPM, SpecSSE, SpecEx); the
\* progress stream shares the pid registry, the process table and the clock
\* with the tracker.
EXTENDS Integers, Sequences, FiniteSets, TLC

\* ------------------------------------------------------------------------
\* Bounds and carrier sets
\* ------------------------------------------------------------------------
MaxPid == 2
MaxTimeout == 1
MaxLines == 1
MaxSseClock == 2
MaxItems == 2
MaxAtts == 1
MaxRuns == 2
\* pool threads that extract an attachment at the same time
MaxOcrThreads == 3
\* largest MISTRAL_CONCURRENT_CALLS considered
MaxLimit == 2
\* longest parser chain given to create_combined_parser
MaxParsers == 3

Pids == 1..MaxPid
Sessions == {"sA", "sB"}
Threads == {"t1", "t2"}
\* threads that issue stop_session requests in SpecPM
StopThreads == {"t1"}
Timeouts == 0..MaxTimeout
Channels == {"stdout", "stderr"}
ExitCodes == {0, 1}
LineKinds == {"blank", "errline", "marker", "noise"}
\* timeout=None
NoTimeout == -1
SseTimeout == 1
SIGKILLED == -9
\* returncode of a subprocess ended by signal.SIGTERM
SIGTERMED == -15
\* PDF_EXTRACTION_WORKERS: sequential (1) or a pool of two workers
PoolSizes == {1, 2}
WorkerIds == {1, 2}
\* What happens to one attachment of a well-formed export: extracted,
\* file not found, extraction fails on every provider, not a PDF path.
AttKinds == {"ok", "missing", "ocrfail", "nonpdf"}
\* item.get("key") or item.get("itemKey", "") is the empty string
NoKey == 0

VARIABLES
  processes,   \* ProcessManager._processes : session -> set of pids (partial)
  alive,       \* pids for which os.kill(pid, 0) succeeds
  clock,       \* time.time(), in units of the 0.2 s polling interval
  calls,       \* per thread: the frame of its stop_session call
  \* --- progress stream (run_subprocess_with_sse) ---
  sse,         \* the generator's frame: position, arguments, spawned pid
  proc,        \* the subprocess: state and exit code
  pipe,        \* per channel: write end open?, lines not yet read, lines written
  rdone,       \* per channel: reader task finished?
  queue,       \* event_queue
  events,      \* the events yielded to the consumer so far
  \* --- extraction engine (load_zotero_to_dataframe_incremental) ---
  src,         \* the source description and PDF_EXTRACTION_WORKERS
  journal,     \* Output Journal: the rows of the output CSV
  ckfile,      \* the checkpoint file (<output>.progress.json)
  errfile,     \* Error Journal: the errors file
  run,         \* the locals of the current run
  wk,          \* per worker: the locals of process_and_save / the loop body
  out,         \* PROGRESS markers printed by the current run
  nrun,        \* number of runs started
  orphans,     \* rows written by a crashed run for items it had not checkpointed
  \* --- journal append (append_record_to_csv) ---
  csvfile,     \* the output CSV: does it exist, and the chunks written to it
  csvlock,     \* _CSV_LOCK: 0 when free, else the thread that holds it
  aw,          \* per pool thread: the frame of its append_record_to_csv call
  \* --- OCR of one attachment (extract_text_with_ocr_retry and below) ---
  cfg,         \* credentials present and MISTRAL_CONCURRENT_CALLS
  sem,         \* MISTRAL_SEMAPHORE: permits left
  ocr,         \* per pool thread: the frame of its extract_text_with_ocr_retry call
  script,      \* outcomes of the successive calls of a scripted extract_text_with_ocr
  \* --- queued stage task (app/tasks/*.py under the settings of celery_app.py) ---
  tk,          \* the task: kind, state, request.retries, executions
  broker,      \* its message: copies ready for delivery, workers holding it unacknowledged
  wrk,         \* per worker: where it is in the task, the raised message's length
  sess,        \* the session record: status and length of error_message
  ncrash,      \* workers lost so far
  \* --- line parsing and file-name matching (pure functions) ---
  arg,         \* the arguments of the call under consideration
  ret,         \* what the call returned, and what it did on the way
  \* --- tracked subprocess (run_tracked_subprocess, app/routes/processing.py) ---
  trk          \* per request: the frame of its run_tracked_subprocess call

pmVars == <<processes, alive, clock, calls>>
sseVars == <<sse, proc, pipe, rdone, queue, events>>

exVars == <<src, journal, ckfile, errfile, run, wk, out, nrun, orphans>>

csvVars == <<csvfile, csvlock, aw>>

\* the state of the components below the three engines above
ocrVars == <<cfg, sem, ocr, script>>

tqVars == <<tk, broker, wrk, sess, ncrash>>

fnVars == <<arg, ret>>

trkVars == <<trk>>

engVars == <<csvVars, ocrVars, tqVars, fnVars, trkVars>>

vars == <<pmVars, sseVars, exVars, engVars>>

\* ------------------------------------------------------------------------
\* Helpers
\* ------------------------------------------------------------------------
RECURSIVE SetToSortedSeq(_)
SetToSortedSeq(S) ==
  IF S = {} THEN <<>>
  ELSE LET m == CHOOSE x \in S : \A y \in S : x <= y
       IN <<m>> \o SetToSortedSeq(S \ {m})

Range(q) == {q[k] : k \in 1..Len(q)}

SelectNotIn(q, S) == SelectSeq(q, LAMBDA x : x \notin S)

\* The pids recorded in the registry for session s (empty if no entry).
Registered(procs, s) == IF s \in DOMAIN procs THEN procs[s] ELSE {}

\* ------------------------------------------------------------------------
\* ProcessManager: register / unregister / get_pids / _is_process_alive
\* ------------------------------------------------------------------------
register(procs, s, pid) ==
  IF s \in DOMAIN procs
  THEN [procs EXCEPT ![s] = @ \cup {pid}]
  ELSE [x \in DOMAIN procs \cup {s} |-> IF x = s THEN {pid} ELSE procs[x]]

\* Faulty variant: discards the pid from every session, not only from s.
unregister_everywhere(procs, s, pid) ==
  LET keep == {x \in DOMAIN procs : procs[x] \ {pid} # {}}
  IN [x \in keep |-> procs[x] \ {pid}]

\* Faulty variant: the session's entry is deleted whatever is left in it.
unregister_drop_entry(procs, s, pid) ==
  IF s \in DOMAIN procs
  THEN [x \in DOMAIN procs \ {s} |-> procs[x]]
  ELSE procs

\* lines 84-89: under the lock; a session without entry is left alone,
\* discard ignores a pid that is not in the set
unregister(procs, s, pid) ==
  IF s \in DOMAIN procs
  THEN IF procs[s] \ {pid} = {}
       THEN [x \in DOMAIN procs \ {s} |-> procs[x]]
       ELSE [procs EXCEPT ![s] = @ \ {pid}]
  ELSE procs

\* Faulty variant: returns the pids of every session.
get_pids_all_sessions(procs, s) ==
  SetToSortedSeq(UNION {procs[x] : x \in DOMAIN procs})

\* list(set) of small ints iterates in ascending order.
get_pids(procs, s) ==
  SetToSortedSeq(IF s \in DOMAIN procs THEN procs[s] ELSE {})

_is_process_alive(pid) == pid \in alive

\* ------------------------------------------------------------------------
\* stop_session frames
\* ------------------------------------------------------------------------
IdleFrame ==
  [pc |-> "idle", session |-> "sA", timeout |-> 0, owned |-> {},
   pids |-> <<>>, i |-> 1,
   terminated |-> <<>>, killed |-> <<>>, failed |-> <<>>, already_dead |-> <<>>,
   remaining |-> <<>>, still_alive |-> <<>>, deadline |-> 0,
   sigterm |-> {}, sigkill |-> {},
   returned |-> FALSE, action_taken |-> FALSE, has_details |-> FALSE,
   total_stopped |-> 0]

InitPMVars ==
  /\ processes = << >>
  /\ alive = {}
  /\ clock = 0
  /\ calls = [t \in Threads |-> IdleFrame]

InitSSEVars ==
  /\ sse = [pc |-> "init", session |-> "", timeout |-> NoTimeout, pid |-> 0,
            start |-> 0, waitStart |-> 0, timedOut |-> FALSE, getWaits |-> FALSE]
  /\ proc = [state |-> "none", rc |-> 0]
  /\ pipe = [ch \in Channels |-> [open |-> FALSE, buf |-> <<>>, written |-> 0]]
  /\ rdone = [ch \in Channels |-> FALSE]
  /\ queue = <<>>
  /\ events = <<>>

IdleRun ==
  [pc |-> "idle", processed_keys |-> {}, all_errors |-> <<>>, todo |-> <<>>,
   already_done |-> 0, total_items |-> 0, item_count |-> 0, completed_count |-> 0,
   ocr_calls |-> 0, loaded |-> FALSE, loaded_keys |-> {}, journal0 |-> 0]

IdleWorker == [pc |-> "idle", idx |-> 0, item_key |-> NoKey, records |-> <<>>,
               errors |-> <<>>, ri |-> 1]

InitExFiles ==
  /\ journal = <<>>
  /\ ckfile = [state |-> "absent", keys |-> {}]
  /\ errfile = <<>>
  /\ run = IdleRun
  /\ wk = [w \in WorkerIds |-> IdleWorker]
  /\ out = <<>>
  /\ nrun = 0
  /\ orphans = {}

\* No extraction in the picture.
InitExIdle ==
  /\ src = [items |-> <<>>, workers |-> 1]
  /\ InitExFiles

\* an append_record_to_csv frame outside any call
IdleAppend == [pc |-> "idle", n |-> 0, file_exists |-> FALSE, buf |-> <<>>]

InitCsvIdle ==
  /\ csvfile = [exists |-> FALSE, data |-> <<>>]
  /\ csvlock = 0
  /\ aw = [w \in WorkerIds |-> IdleAppend]

OcrThreads == 1..MaxOcrThreads

\* an extract_text_with_ocr_retry frame outside any call
IdleOcr == [pc |-> "idle", attempt |-> 0, calls |-> 0, waits |-> <<>>,
            provs |-> <<>>, outs |-> <<>>, result |-> "none", provider |-> "none"]

InitOcrIdle ==
  /\ cfg = [mistral_key |-> FALSE, openai_key |-> FALSE, limit |-> 1]
  /\ sem = 1
  /\ ocr = [w \in OcrThreads |-> IdleOcr]
  /\ script = <<>>

TaskWorkers == {1, 2}

IdleTaskWorker == [pc |-> "idle", msglen |-> 0]

\* no task was submitted
InitTqIdle ==
  /\ tk = [kind |-> "extraction", state |-> "PENDING", retries |-> 0,
           execs |-> 0, completed |-> 0, acked |-> 0]
  /\ broker = [ready |-> 0, unacked |-> {}]
  /\ wrk = [w \in TaskWorkers |-> IdleTaskWorker]
  /\ sess = [status |-> "created", errlen |-> 0]
  /\ ncrash = 0

\* no call under consideration
InitFnIdle ==
  /\ arg = [fn |-> "none"]
  /\ ret = [fn |-> "none"]

\* requests that run a tracked subprocess
TrackedCalls == {1, 2}

\* a run_tracked_subprocess call that has not started
IdleTrk == [pc |-> "idle", session |-> "sA", pid |-> 0, result |-> "none"]

InitTrkIdle == trk = [c \in TrackedCalls |-> IdleTrk]

InitEngIdle ==
  InitCsvIdle /\ InitOcrIdle /\ InitTqIdle /\ InitFnIdle /\ InitTrkIdle

InitPM == InitPMVars /\ InitSSEVars /\ InitExIdle /\ InitEngIdle

\* ---- environment and plain API calls ----------------------------------
\* A process with this pid comes into existence.
Spawn(p) ==
  /\ p \notin alive
  /\ alive' = alive \cup {p}
  /\ UNCHANGED <<processes, clock, calls>>
  /\ UNCHANGED <<sseVars, exVars, engVars>>

\* A live process ends (on its own, or as its reaction to SIGTERM).
Exit(p) ==
  /\ p \in alive
  /\ alive' = alive \ {p}
  /\ UNCHANGED <<processes, clock, calls>>
  /\ UNCHANGED <<sseVars, exVars, engVars>>

Register(s, p) ==
  /\ processes' = register(processes, s, p)
  /\ processes' # processes
  /\ UNCHANGED <<alive, clock, calls>>
  /\ UNCHANGED <<sseVars, exVars, engVars>>

Unregister(s, p) ==
  /\ processes' = unregister(processes, s, p)
  /\ processes' # processes
  /\ UNCHANGED <<alive, clock, calls>>
  /\ UNCHANGED <<sseVars, exVars, engVars>>

\* Faulty variant: dead pids are discarded, emptied entries are kept.
cleanup_dead_processes_keep_entries(procs, live) ==
  [x \in DOMAIN procs |-> procs[x] \cap live]

\* lines 215-225: under the lock, discard the dead pids of every session and
\* delete the entries left empty.
cleanup_dead_processes(procs, live) ==
  LET keep == {x \in DOMAIN procs : procs[x] \cap live # {}}
  IN [x \in keep |-> procs[x] \cap live]

\* cleanup_dead_processes() by any thread.
Cleanup ==
  /\ processes' = cleanup_dead_processes(processes, alive)
  /\ processes' # processes
  /\ UNCHANGED <<alive, clock, calls>>
  /\ UNCHANGED <<sseVars, exVars, engVars>>

\* Time passes while a stop_session call is polling (the clock is read
\* nowhere else, so time that passes outside a polling loop is not counted).
Tick ==
  /\ \E t \in Threads : calls[t].pc \in {"poll", "scan"} /\ clock < calls[t].deadline
  /\ clock' = clock + 1
  /\ UNCHANGED <<processes, alive, calls>>
  /\ UNCHANGED <<sseVars, exVars, engVars>>

\* ---- stop_session, one step per loop iteration -------------------------
\* lines 127-143: snapshot the session's pids; empty snapshot returns at once.
StopBegin(t, s, timeout) ==
  /\ calls[t].pc = "idle"
  /\ LET pids == get_pids(processes, s)
         f0 == [IdleFrame EXCEPT !.session = s, !.timeout = timeout,
                                 !.owned = Registered(processes, s),
                                 !.pids = pids]
     IN calls' = [calls EXCEPT ![t] =
          IF pids = <<>>
          THEN [f0 EXCEPT !.pc = "done", !.returned = TRUE,
                          !.action_taken = FALSE, !.has_details = FALSE]
          ELSE [f0 EXCEPT !.pc = "phase1", !.i = 1]]
  /\ UNCHANGED <<processes, alive, clock>>
  /\ UNCHANGED <<sseVars, exVars, engVars>>

\* Faulty variant: a signal that cannot be sent ends the loop.
OnSignalFailure_abort(c, pid, n) == [c EXCEPT !.failed = Append(@, pid), !.i = n + 1]

\* lines 154-156 and 181-183: except OSError: failed.append(pid), and the loop
\* over the n pids goes on with the next one.
OnSignalFailure(c, pid, n) == [c EXCEPT !.failed = Append(@, pid), !.i = @ + 1]

\* lines 146-156: one iteration of the SIGTERM loop.
Phase1Step(t) ==
  LET c == calls[t]
      pid == c.pids[c.i]
  IN /\ c.pc = "phase1"
     /\ c.i <= Len(c.pids)
     /\ IF ~_is_process_alive(pid)
        THEN /\ calls' = [calls EXCEPT ![t].already_dead = Append(@, pid),
                                       ![t].i = @ + 1]
             /\ processes' = unregister(processes, c.session, pid)
             /\ UNCHANGED alive
        ELSE \/ \* os.kill(pid, SIGTERM) succeeds
                /\ calls' = [calls EXCEPT ![t].sigterm = @ \cup {pid},
                                          ![t].i = @ + 1]
                /\ UNCHANGED <<processes, alive>>
             \/ \* the process ends between the probe and the signal: OSError
                /\ alive' = alive \ {pid}
                /\ calls' = [calls EXCEPT ![t] = OnSignalFailure(c, pid, Len(c.pids))]
                /\ UNCHANGED processes
     /\ UNCHANGED clock
     /\ UNCHANGED <<sseVars, exVars, engVars>>

\* lines 159-160: compute the deadline and the pids to poll.
Phase1End(t) ==
  LET c == calls[t]
  IN /\ c.pc = "phase1"
     /\ c.i > Len(c.pids)
     /\ calls' = [calls EXCEPT
          ![t].deadline = clock + c.timeout,
          ![t].remaining = SelectNotIn(c.pids, Range(c.already_dead) \cup Range(c.failed)),
          ![t].pc = "poll"]
     /\ UNCHANGED <<processes, alive, clock>>
     /\ UNCHANGED <<sseVars, exVars, engVars>>

\* Faulty variant: the polling loop gives up one interval before the deadline.
PollCond_early(c, now) == c.remaining # <<>> /\ now + 1 < c.deadline

\* line 162: while remaining_pids and time.time() < deadline
PollCond(c, now) == c.remaining # <<>> /\ now < c.deadline

\* lines 162-164: loop test; when it holds, sleep one polling interval.
PollSleep(t) ==
  LET c == calls[t]
  IN /\ c.pc = "poll"
     /\ PollCond(c, clock)
     /\ clock' = clock + 1
     /\ calls' = [calls EXCEPT ![t].pc = "scan", ![t].i = 1, ![t].still_alive = <<>>]
     /\ UNCHANGED <<processes, alive>>
     /\ UNCHANGED <<sseVars, exVars, engVars>>

\* lines 165-170: one iteration of the liveness scan.
PollScan(t) ==
  LET c == calls[t]
      pid == c.remaining[c.i]
  IN /\ c.pc = "scan"
     /\ c.i <= Len(c.remaining)
     /\ IF _is_process_alive(pid)
        THEN /\ calls' = [calls EXCEPT ![t].still_alive = Append(@, pid),
                                       ![t].i = @ + 1]
             /\ UNCHANGED processes
        ELSE /\ calls' = [calls EXCEPT ![t].terminated = Append(@, pid),
                                       ![t].i = @ + 1]
             /\ processes' = unregister(processes, c.session, pid)
     /\ UNCHANGED <<alive, clock>>
     /\ UNCHANGED <<sseVars, exVars, engVars>>

\* line 171: remaining_pids = still_alive, back to the loop test.
PollScanEnd(t) ==
  LET c == calls[t]
  IN /\ c.pc = "scan"
     /\ c.i > Len(c.remaining)
     /\ calls' = [calls EXCEPT ![t].remaining = c.still_alive,
                               ![t].still_alive = <<>>,
                               ![t].pc = "poll"]
     /\ UNCHANGED <<processes, alive, clock>>
     /\ UNCHANGED <<sseVars, exVars, engVars>>

\* line 162 false: leave the polling loop.
PollExit(t) ==
  LET c == calls[t]
  IN /\ c.pc = "poll"
     /\ ~PollCond(c, clock)
     /\ calls' = [calls EXCEPT ![t].pc = "phase2", ![t].i = 1]
     /\ UNCHANGED <<processes, alive, clock>>
     /\ UNCHANGED <<sseVars, exVars, engVars>>

\* lines 174-186: one iteration of the SIGKILL loop.
Phase2Step(t) ==
  LET c == calls[t]
      pid == c.remaining[c.i]
  IN /\ c.pc = "phase2"
     /\ c.i <= Len(c.remaining)
     /\ IF _is_process_alive(pid)
        THEN \/ \* os.kill(pid, SIGKILL) succeeds
                /\ alive' = alive \ {pid}
                /\ calls' = [calls EXCEPT ![t].sigkill = @ \cup {pid},
                                          ![t].killed = Append(@, pid),
                                          ![t].i = @ + 1]
                /\ processes' = unregister(processes, c.session, pid)
             \/ \* the process ends between the probe and the signal: OSError
                /\ alive' = alive \ {pid}
                /\ calls' = [calls EXCEPT ![t] = OnSignalFailure(c, pid, Len(c.remaining))]
                /\ UNCHANGED processes
        ELSE /\ calls' = [calls EXCEPT ![t].terminated = Append(@, pid),
                                       ![t].i = @ + 1]
             /\ processes' = unregister(processes, c.session, pid)
             /\ UNCHANGED alive
     /\ UNCHANGED clock
     /\ UNCHANGED <<sseVars, exVars, engVars>>

\* Faulty variant: the pids that could not be signalled are counted too.
total_stopped_with_failed(c) ==
  Len(c.terminated) + Len(c.killed) + Len(c.already_dead) + Len(c.failed)

\* line 189
total_stopped(c) == Len(c.terminated) + Len(c.killed) + Len(c.already_dead)

\* lines 188-205: build and return the result.
StopReturn(t) ==
  LET c == calls[t]
      total == total_stopped(c)
  IN /\ c.pc = "phase2"
     /\ c.i > Len(c.remaining)
     /\ calls' = [calls EXCEPT ![t].pc = "done", ![t].returned = TRUE,
                               ![t].total_stopped = total,
                               ![t].action_taken = (total > 0),
                               ![t].has_details = TRUE]
     /\ UNCHANGED <<processes, alive, clock>>
     /\ UNCHANGED <<sseVars, exVars, engVars>>

NextPM ==
  \/ \E p \in Pids : Spawn(p)
  \/ \E p \in Pids : Exit(p)
  \/ \E s \in Sessions, p \in Pids : Register(s, p)
  \/ \E s \in Sessions, p \in Pids : Unregister(s, p)
  \/ Tick
  \/ \E t \in StopThreads, s \in Sessions, d \in Timeouts : StopBegin(t, s, d)
  \/ \E t \in StopThreads : Phase1Step(t)
  \/ \E t \in StopThreads : Phase1End(t)
  \/ \E t \in StopThreads : PollSleep(t)
  \/ \E t \in StopThreads : PollScan(t)
  \/ \E t \in StopThreads : PollScanEnd(t)
  \/ \E t \in StopThreads : PollExit(t)
  \/ \E t \in StopThreads : Phase2Step(t)
  \/ \E t \in StopThreads : StopReturn(t)

SpecPM == InitPM /\ [][NextPM]_vars

\* ------------------------------------------------------------------------
\* Properties of the process lifecycle tracker (checked under SpecPM)
\* ------------------------------------------------------------------------
Last(q) == q[Len(q)]

\* C1: stop_session on a session with no registered pids returns normally
\* with action_taken = false, sends no signal and leaves the registry as it is.
C1_StopIdleSessionIsNoop ==
  [][\A t \in Threads :
       (calls[t].pc = "idle" /\ calls'[t].pc # "idle" /\ calls'[t].owned = {})
         => /\ calls'[t].pc = "done"
            /\ calls'[t].returned
            /\ ~calls'[t].action_taken
            /\ calls'[t].sigterm = {} /\ calls'[t].sigkill = {}
            /\ processes' = processes]_vars

\* C1 witness: a stop on an idle session has returned while another session
\* holds a live registered pid.
C1_Witness ==
  \E t \in Threads :
    /\ calls[t].pc = "done" /\ calls[t].owned = {} /\ ~calls[t].action_taken
    /\ \E s \in Sessions \ {calls[t].session} : Registered(processes, s) \cap alive # {}

\* C2: every step of stop_session(s) signals only pids that were registered
\* under s when it was called, and leaves the pid set of every other session
\* unchanged.
C2_StopTouchesOnlyOwnSession ==
  [][\A t \in Threads :
       calls'[t] # calls[t]
         => /\ (calls'[t].sigterm \cup calls'[t].sigkill) \subseteq calls'[t].owned
            /\ \A s \in Sessions \ {calls'[t].session} :
                 Registered(processes', s) = Registered(processes, s)]_vars

\* C2 witness: a stop that signalled its own pids has returned while another
\* session still holds a pid of its own and a pid shared with the stopped one.
C2_Witness ==
  \E t \in Threads :
    /\ calls[t].pc = "done" /\ calls[t].sigterm # {}
    /\ \E s \in Sessions \ {calls[t].session} :
         /\ Registered(processes, s) \ calls[t].owned # {}
         /\ Registered(processes, s) \cap calls[t].sigterm # {}

C3_Lists(c) ==
  /\ Range(c.killed) = c.sigkill
  /\ c.sigkill \cap Range(c.terminated) = {}

\* C3: SIGKILL is sent only in the second phase, at or after the deadline, to
\* a pid that got SIGTERM, and that pid is listed under force_killed and not
\* under terminated_gracefully; a pid found dead by a poll is listed under
\* terminated_gracefully and gets no SIGKILL.
C3_KillOnlyAfterDeadline ==
  [][\A t \in Threads :
       LET c == calls[t]
           d == calls'[t]
       IN /\ d.sigkill # c.sigkill
               => /\ c.pc = "phase2"
                  /\ clock >= c.deadline
                  /\ (d.sigkill \ c.sigkill) \subseteq c.sigterm
                  /\ (d.sigkill \ c.sigkill) \subseteq Range(d.killed)
          /\ (c.pc = "scan" /\ Len(d.terminated) > Len(c.terminated))
               => /\ d.sigkill = c.sigkill
                  /\ Last(d.terminated) \notin alive
          /\ C3_Lists(d)]_vars

\* C3 witness: with a positive timeout, one pid ended during polling and
\* another one had to be killed after the deadline.
C3_Witness ==
  \E t \in Threads :
    /\ calls[t].pc = "done" /\ calls[t].timeout > 0
    /\ calls[t].killed # <<>> /\ calls[t].terminated # <<>>
    /\ clock >= calls[t].deadline

\* how many of the four result lists of frame c hold pid, counting repeats
Reports(c, pid) ==
  Cardinality({k \in 1..Len(c.terminated) : c.terminated[k] = pid})
  + Cardinality({k \in 1..Len(c.killed) : c.killed[k] = pid})
  + Cardinality({k \in 1..Len(c.failed) : c.failed[k] = pid})
  + Cardinality({k \in 1..Len(c.already_dead) : c.already_dead[k] = pid})

C28_Result(c) ==
  /\ Range(c.already_dead) \cap (c.sigterm \cup c.sigkill) = {}
  /\ (c.returned /\ c.has_details) =>
       \A k \in 1..Len(c.pids) :
         LET pid == c.pids[k]
         IN /\ Reports(c, pid) = 1
            /\ pid \in Range(c.already_dead) \cup c.sigterm \cup Range(c.failed)
            /\ pid \in c.sigterm =>
                 pid \in Range(c.terminated) \cup Range(c.killed) \cup Range(c.failed)

\* C28: a pid whose signal could not be sent is listed under failed and the
\* call goes on: at the return every pid of the snapshot is in exactly one of
\* the four lists, was sent the graceful signal unless it is under
\* already_dead or failed, and was polled to an outcome; a pid found dead in
\* the first phase is unregistered in that step and never signalled.
C28_SignalFailureIsolated ==
  /\ [](\A t \in StopThreads : C28_Result(calls[t]))
  /\ [][\A t \in StopThreads :
          Len(calls'[t].already_dead) > Len(calls[t].already_dead) =>
            /\ Last(calls'[t].already_dead) \notin Registered(processes', calls[t].session)
            /\ calls'[t].sigterm = calls[t].sigterm]_vars

\* C28 witness: of two pids, one could not be signalled and the other one
\* was signalled, polled and had to be killed.
C28_Witness ==
  \E t \in StopThreads :
    /\ calls[t].returned /\ Len(calls[t].pids) = 2
    /\ Len(calls[t].failed) = 1 /\ Len(calls[t].killed) = 1
    /\ calls[t].failed[1] = calls[t].pids[1]

\* the last pid of list q if the step made q longer, else none
NewlyListed(q, q2) == IF Len(q2) > Len(q) THEN {q2[Len(q2)]} ELSE {}

\* C34: in the result of a stop_session call on a session that had
\* registered pids, every pid of the snapshot is in exactly one of the four
\* lists and the lists hold nothing else, total_stopped is the combined
\* length of terminated_gracefully, force_killed and already_dead, and
\* action_taken is total_stopped > 0; the step that lists a pid under one
\* of these three unregisters it from the session, and the step that lists
\* a pid under failed leaves the registry as it is.
C34_ResultAccounting ==
  /\ [](\A t \in StopThreads :
          LET c == calls[t]
          IN (c.returned /\ c.has_details) =>
               /\ \A k \in 1..Len(c.pids) : Reports(c, c.pids[k]) = 1
               /\ Len(c.terminated) + Len(c.killed) + Len(c.failed) + Len(c.already_dead)
                    = Len(c.pids)
               /\ c.total_stopped = Len(c.terminated) + Len(c.killed) + Len(c.already_dead)
               /\ c.action_taken = (c.total_stopped > 0))
  /\ [][\A t \in StopThreads :
          LET c == calls[t]
              d == calls'[t]
          IN /\ \A pid \in NewlyListed(c.terminated, d.terminated)
                           \cup NewlyListed(c.killed, d.killed)
                           \cup NewlyListed(c.already_dead, d.already_dead) :
                  pid \notin Registered(processes', c.session)
             /\ NewlyListed(c.failed, d.failed) # {} => processes' = processes]_vars

\* C34 witness: a call on two pids returned with one pid under failed and
\* one under already_dead; total_stopped is 1 and the failed pid is still
\* registered.
C34_Witness ==
  \E t \in StopThreads :
    LET c == calls[t]
    IN /\ c.returned /\ c.has_details
       /\ Len(c.pids) = 2 /\ Len(c.failed) = 1 /\ Len(c.already_dead) = 1
       /\ c.total_stopped = 1 /\ c.action_taken
       /\ c.failed[1] \in Registered(processes, c.session)

\* ------------------------------------------------------------------------
\* The registry under concurrent register, unregister, stop_session and
\* cleanup_dead_processes calls (stop_session with timeout 0)
\* ------------------------------------------------------------------------
NextReg ==
  \/ \E p \in Pids : Spawn(p)
  \/ \E p \in Pids : Exit(p)
  \/ \E s \in Sessions, p \in Pids : Register(s, p)
  \/ \E s \in Sessions, p \in Pids : Unregister(s, p)
  \/ Cleanup
  \/ \E t \in StopThreads, s \in Sessions : StopBegin(t, s, 0)
  \/ \E t \in StopThreads : Phase1Step(t)
  \/ \E t \in StopThreads : Phase1End(t)
  \/ \E t \in StopThreads : PollExit(t)
  \/ \E t \in StopThreads : Phase2Step(t)
  \/ \E t \in StopThreads : StopReturn(t)

SpecReg == InitPM /\ [][NextReg]_vars

\* the (session, pid) pairs a registry holds
Pairs(procs) == {sp \in Sessions \X Pids : sp[1] \in DOMAIN procs /\ sp[2] \in procs[sp[1]]}

\* C29: the registry never holds a session entry with an empty pid set, and
\* get_pids(s) is, without repeats, the set of pids registered under s and
\* not yet removed: a step adds one pair (register), removes one pair
\* (unregister, also inside stop_session) or removes pairs of dead pids
\* (cleanup_dead_processes).
C29_RegistryConsistent ==
  /\ [](/\ \A s \in DOMAIN processes : processes[s] # {}
        /\ \A s \in Sessions :
             /\ Range(get_pids(processes, s)) = {sp[2] : sp \in {x \in Pairs(processes) : x[1] = s}}
             /\ Len(get_pids(processes, s)) = Cardinality(Range(get_pids(processes, s))))
  /\ [][LET old == Pairs(processes)
            new == Pairs(processes')
        IN \/ new = old
           \/ old \subseteq new /\ Cardinality(new \ old) = 1
           \/ new \subseteq old /\ Cardinality(old \ new) = 1
           \/ new \subseteq old /\ \A sp \in old \ new : sp[2] \notin alive]_vars

\* C29 witness: a stop_session call is about to handle the pids that survived
\* its first phase, other threads have meanwhile removed them and the entry
\* of its session is gone, while the other session still has an entry.
C29_Witness ==
  \E t \in StopThreads :
    /\ calls[t].pc = "phase2" /\ calls[t].i = 1 /\ calls[t].remaining # <<>>
    /\ calls[t].session \notin DOMAIN processes
    /\ DOMAIN processes # {}

TypeOKPM ==
  /\ DOMAIN processes \subseteq Sessions
  /\ alive \subseteq Pids
  /\ clock \in Nat

\* ------------------------------------------------------------------------
\* stop_session called while nothing is running for the session
\* ------------------------------------------------------------------------
\* A stop_session(s) call made when no registered pid of s is live.
StopBeginIdle(t, s, timeout) ==
  /\ Registered(processes, s) \cap alive = {}
  /\ StopBegin(t, s, timeout)

NextStopIdle ==
  \/ \E p \in Pids : Spawn(p)
  \/ \E p \in Pids : Exit(p)
  \/ \E s \in Sessions, p \in Pids : Register(s, p)
  \/ \E s \in Sessions, p \in Pids : Unregister(s, p)
  \/ Tick
  \/ \E t \in StopThreads, s \in Sessions, d \in Timeouts : StopBeginIdle(t, s, d)
  \/ \E t \in StopThreads : Phase1Step(t)
  \/ \E t \in StopThreads : Phase1End(t)
  \/ \E t \in StopThreads : PollSleep(t)
  \/ \E t \in StopThreads : PollScan(t)
  \/ \E t \in StopThreads : PollScanEnd(t)
  \/ \E t \in StopThreads : PollExit(t)
  \/ \E t \in StopThreads : Phase2Step(t)
  \/ \E t \in StopThreads : StopReturn(t)

SpecStopIdle == InitPM /\ [][NextStopIdle]_vars

\* C26: a stop_session call made when no registered pid of the session was
\* live returns action_taken = false, whether the session had no registered
\* pids or only pids of dead processes.
C26_IdleStopTakesNoAction ==
  \A t \in Threads : calls[t].returned => ~calls[t].action_taken
\* ------------------------------------------------------------------------
\* Progress stream: run_subprocess_with_sse (app/utils/sse_helpers.py)
\* ------------------------------------------------------------------------
sseOther == <<calls, exVars, engVars>>

None == [type |-> "none", src |-> "", ch |-> "", n |-> 0, msg |-> "", code |-> 0]

LineEvent(type, ch, n) ==
  [type |-> type, src |-> "line", ch |-> ch, n |-> n, msg |-> "", code |-> 0]

\* The result of the parser chain on a line: only structured markers match.
progress_parser(ch, line) ==
  IF line.kind = "marker" THEN LineEvent("progress", ch, line.n) ELSE None

\* lines 71-87: the event, if any, that read_stream yields for one line.
read_stream_event(ch, line) ==
  IF line.kind = "blank" THEN None
  ELSE IF line.kind = "errline" THEN LineEvent("error", ch, line.n)
  ELSE progress_parser(ch, line)

\* Faulty variant: reports success whatever the exit code.
TerminalEvent_always_complete(rc) ==
  [type |-> "complete", src |-> "exit", ch |-> "", n |-> 0,
   msg |-> "Process completed successfully", code |-> 0]

\* lines 149-152: the event emitted for the subprocess's exit code.
TerminalEvent(rc) ==
  IF rc # 0
  THEN [type |-> "error", src |-> "exit", ch |-> "", n |-> 0,
        msg |-> "Process failed with code", code |-> rc]
  ELSE [type |-> "complete", src |-> "exit", ch |-> "", n |-> 0,
        msg |-> "Process completed successfully", code |-> 0]

\* line 140
TimeoutEvent ==
  [type |-> "error", src |-> "timeout", ch |-> "", n |-> 0,
   msg |-> "Process timed out", code |-> 0]

\* line 162
ExceptionEvent ==
  [type |-> "error", src |-> "exception", ch |-> "", n |-> 0,
   msg |-> "str(e)", code |-> 0]

ClosedPipes == [ch \in Channels |-> [pipe[ch] EXCEPT !.open = FALSE]]

\* lines 48-61 and 102-106: spawn, register, start the two readers; a spawn
\* failure goes to the handler of line 154, which has no pid to unregister.
\* The new process gets the lowest free pid.
SseStart(s, to) ==
  /\ sse.pc = "init"
  /\ \/ /\ events' = Append(events, ExceptionEvent)
        /\ sse' = [sse EXCEPT !.pc = "done", !.session = s, !.timeout = to]
        /\ UNCHANGED <<processes, alive, proc, pipe>>
     \/ \E p \in {q \in Pids \ alive : \A r \in Pids \ alive : q <= r} :
          /\ alive' = alive \cup {p}
          /\ proc' = [state |-> "running", rc |-> 0]
          /\ pipe' = [ch \in Channels |-> [open |-> TRUE, buf |-> <<>>, written |-> 0]]
          /\ processes' = IF s # "" THEN register(processes, s, p) ELSE processes
          /\ sse' = [sse EXCEPT !.pc = "streaming", !.session = s, !.timeout = to,
                                !.pid = p, !.start = clock, !.getWaits = TRUE]
          /\ UNCHANGED events
  /\ UNCHANGED <<clock, rdone, queue, sseOther>>

\* The subprocess writes one line to a channel (what it writes once nobody
\* listens any more is not followed).
ProcWrite(ch, kind) ==
  /\ sse.pc \in {"streaming", "wait"}
  /\ proc.state = "running"
  /\ pipe[ch].open
  /\ pipe[ch].written < MaxLines
  /\ pipe' = [pipe EXCEPT ![ch].written = @ + 1,
                          ![ch].buf = Append(@, [kind |-> kind, n |-> pipe[ch].written + 1])]
  /\ UNCHANGED <<processes, alive, clock, sse, proc, rdone, queue, events, sseOther>>

\* The subprocess closes a channel and keeps running.
ProcClose(ch) ==
  /\ sse.pc \in {"streaming", "wait"}
  /\ proc.state = "running"
  /\ pipe[ch].open
  /\ pipe' = [pipe EXCEPT ![ch].open = FALSE]
  /\ UNCHANGED <<processes, alive, clock, sse, proc, rdone, queue, events, sseOther>>

\* The subprocess exits on its own; its channels close with it.
ProcExit(rc) ==
  /\ proc.state = "running"
  /\ sse.pid \in alive
  /\ proc' = [state |-> "exited", rc |-> rc]
  /\ alive' = alive \ {sse.pid}
  /\ pipe' = ClosedPipes
  /\ UNCHANGED <<processes, clock, sse, rdone, queue, events, sseOther>>

\* lines 63-87, 97-100: a reader takes one line, or sees end of file.
ReaderStep(ch) ==
  /\ sse.pc = "streaming"
  /\ ~rdone[ch]
  /\ IF pipe[ch].buf # <<>>
     THEN LET ev == read_stream_event(ch, Head(pipe[ch].buf))
          IN /\ pipe' = [pipe EXCEPT ![ch].buf = Tail(@)]
             /\ queue' = IF ev = None THEN queue ELSE Append(queue, ev)
             /\ UNCHANGED rdone
     ELSE /\ ~pipe[ch].open
          /\ rdone' = [rdone EXCEPT ![ch] = TRUE]
          /\ UNCHANGED <<pipe, queue>>
  /\ UNCHANGED <<processes, alive, clock, sse, proc, events, sseOther>>

\* lines 89-91: reading a line raises (e.g. line over the buffer limit);
\* the reader logs it and stops.
ReaderFail(ch) ==
  /\ sse.pc = "streaming"
  /\ ~rdone[ch]
  /\ pipe[ch].buf # <<>>
  /\ rdone' = [rdone EXCEPT ![ch] = TRUE]
  /\ UNCHANGED <<processes, alive, clock, sse, proc, pipe, queue, events, sseOther>>

\* lines 117-118, 126-127: take an event from the queue and yield it.
StreamEmit ==
  /\ sse.pc = "streaming"
  /\ queue # <<>>
  /\ events' = Append(events, Head(queue))
  /\ queue' = Tail(queue)
  /\ sse' = [sse EXCEPT !.getWaits = (Tail(queue) = <<>>)]
  /\ UNCHANGED <<processes, alive, clock, proc, pipe, rdone, sseOther>>

\* line 121: if all(r.done() for r in readers): break
BreakOnTimeout(readers_done) == readers_done

\* lines 117-122: the get() of line 117 found the queue empty and waits; its
\* 0.1 s timer fires and cancels it; before the generator resumes at line 119
\* the reader tasks run, queue their last events and finish; the generator
\* then leaves the loop at line 122 without looking at the queue. (A timeout
\* with a reader still running goes back to line 112 and changes nothing.)
StreamBreakOnTimeout ==
  /\ sse.pc = "streaming"
  /\ sse.getWaits
  /\ queue # <<>>
  /\ BreakOnTimeout(\A ch \in Channels : rdone[ch])
  /\ sse' = [sse EXCEPT !.pc = "wait", !.waitStart = clock, !.getWaits = FALSE]
  /\ UNCHANGED <<processes, alive, clock, proc, pipe, rdone, queue, events, sseOther>>

\* lines 112-113, 121-122, 130: both readers done and nothing queued; the
\* generator goes on to wait for the subprocess.
StreamBreak ==
  /\ sse.pc = "streaming"
  /\ \A ch \in Channels : rdone[ch]
  /\ queue = <<>>
  /\ sse' = [sse EXCEPT !.pc = "wait", !.waitStart = clock, !.getWaits = FALSE]
  /\ UNCHANGED <<processes, alive, clock, proc, pipe, rdone, queue, events, sseOther>>

\* lines 134, 143-152: the subprocess has exited.
WaitExit ==
  /\ sse.pc = "wait"
  /\ proc.state = "exited"
  /\ processes' = IF sse.session # "" THEN unregister(processes, sse.session, sse.pid)
                  ELSE processes
  /\ events' = Append(events, TerminalEvent(proc.rc))
  /\ sse' = [sse EXCEPT !.pc = "done"]
  /\ UNCHANGED <<alive, clock, proc, pipe, rdone, queue, sseOther>>

\* lines 135-141: the wait for the subprocess times out.
WaitTimeout ==
  /\ sse.pc = "wait"
  /\ sse.timeout # NoTimeout
  /\ proc.state = "running"
  /\ clock >= sse.waitStart + sse.timeout
  /\ proc' = [state |-> "exited", rc |-> SIGKILLED]
  /\ alive' = alive \ {sse.pid}
  /\ pipe' = ClosedPipes
  /\ processes' = IF sse.session # "" THEN unregister(processes, sse.session, sse.pid)
                  ELSE processes
  /\ events' = Append(events, TimeoutEvent)
  /\ sse' = [sse EXCEPT !.pc = "done", !.timedOut = TRUE]
  /\ UNCHANGED <<clock, rdone, queue, sseOther>>

\* The consumer closes the generator, or the request task is cancelled, while
\* the generator is suspended: GeneratorExit / CancelledError are not
\* Exceptions, so the handler of line 154 does not run.
Abandon ==
  /\ sse.pc \in {"streaming", "wait"}
  /\ sse' = [sse EXCEPT !.pc = "closed", !.getWaits = FALSE]
  /\ UNCHANGED <<processes, alive, clock, proc, pipe, rdone, queue, events, sseOther>>

\* Time passes while the stream is open; the timer of line 134 fires on time.
SseTick ==
  /\ sse.pc \in {"streaming", "wait"}
  /\ proc.state = "running"
  /\ clock < MaxSseClock
  /\ ~(sse.pc = "wait" /\ sse.timeout # NoTimeout /\ clock >= sse.waitStart + sse.timeout)
  /\ clock' = clock + 1
  /\ UNCHANGED <<processes, alive, sse, proc, pipe, rdone, queue, events, sseOther>>

InitSSE == InitPMVars /\ InitSSEVars /\ InitExIdle /\ InitEngIdle

NextSSE ==
  \/ \E s \in {"", "sA"}, to \in {NoTimeout, SseTimeout} : SseStart(s, to)
  \/ \E ch \in Channels, k \in LineKinds : ProcWrite(ch, k)
  \/ \E ch \in Channels : ProcClose(ch)
  \/ \E rc \in ExitCodes : ProcExit(rc)
  \/ \E ch \in Channels : ReaderStep(ch)
  \/ \E ch \in Channels : ReaderFail(ch)
  \/ StreamEmit
  \/ StreamBreakOnTimeout
  \/ StreamBreak
  \/ WaitExit
  \/ WaitTimeout
  \/ Abandon
  \/ SseTick

SpecSSE == InitSSE /\ [][NextSSE]_vars

StreamEnded == sse.pc \in {"done", "closed"}
\* ------------------------------------------------------------------------
\* Properties of the progress stream (checked under SpecSSE)
\* ------------------------------------------------------------------------
\* C4: once a stream that was started with a session id has ended, in
\* whatever way, the subprocess pid is no longer registered under it.
C4_UnregisteredWhenEnded ==
  (StreamEnded /\ sse.session # "")
    => sse.pid \notin Registered(processes, sse.session)

\* C5: a stream with a finite timeout never stays open with its subprocess
\* still running after more than the timeout has elapsed since the start.
C5_TimeoutEnforced ==
  (sse.timeout # NoTimeout /\ sse.pc \in {"streaming", "wait"} /\ proc.state = "running")
    => clock <= sse.start + sse.timeout

RanToExit == sse.pc = "done" /\ proc.state = "exited" /\ ~sse.timedOut

C6_Final ==
  RanToExit
    => /\ events # <<>>
       /\ Last(events).src = "exit"
       /\ proc.rc = 0 => Last(events).type = "complete"
       /\ proc.rc # 0 => /\ Last(events).type = "error"
                         /\ Last(events).msg = "Process failed with code"
                         /\ Last(events).code = proc.rc
       /\ \A k \in 1..(Len(events) - 1) : events[k].src = "line"

\* C6: a stream whose subprocess exited on its own ends with exactly one
\* terminal event, after all line-derived events: complete for exit code 0,
\* error "Process failed with code N" for N # 0; complete is never emitted
\* for a non-zero exit code and nothing follows the terminal event.
C6_OneTerminalEvent ==
  [][/\ C6_Final'
     /\ \A k \in 1..Len(events') :
          events'[k].type = "complete" => (proc'.state = "exited" /\ proc'.rc = 0)
     /\ sse.pc = "done" => events' = events]_vars

\* C6 witness: the subprocess failed on its own after a line-derived error
\* event and a progress event had been delivered.
C6_Witness ==
  /\ RanToExit /\ proc.rc # 0
  /\ \E k \in 1..Len(events) : events[k].src = "line" /\ events[k].type = "error"
  /\ \E k \in 1..Len(events) : events[k].src = "line" /\ events[k].type = "progress"

\* ------------------------------------------------------------------------
\* A progress stream whose subprocess is stopped by stop_session
\* ------------------------------------------------------------------------
\* The subprocess got SIGTERM from a stop_session call and installs no
\* handler for it: it is terminated by the signal.
ProcTerminated ==
  /\ proc.state = "running"
  /\ sse.pid \in alive
  /\ \E t \in Threads : sse.pid \in calls[t].sigterm
  /\ proc' = [state |-> "exited", rc |-> SIGTERMED]
  /\ alive' = alive \ {sse.pid}
  /\ pipe' = ClosedPipes
  /\ UNCHANGED <<processes, clock, sse, rdone, queue, events, sseOther>>

\* The subprocess is gone for the kernel and the event loop learns of it:
\* killed by the SIGKILL of stop_session, or ended on its own just before a
\* signal of stop_session could be sent.
ProcReaped(rc) ==
  /\ proc.state = "running"
  /\ sse.pid \notin alive
  /\ proc' = [state |-> "exited",
              rc |-> IF \E t \in Threads : sse.pid \in calls[t].sigkill
                     THEN SIGKILLED ELSE rc]
  /\ pipe' = ClosedPipes
  /\ UNCHANGED <<processes, alive, clock, sse, rdone, queue, events, sseOther>>

NextCancel ==
  \/ SseStart("sA", NoTimeout)
  \/ \E ch \in Channels, k \in LineKinds : ProcWrite(ch, k)
  \/ \E ch \in Channels : ProcClose(ch)
  \/ \E rc \in ExitCodes : ProcExit(rc)
  \/ ProcTerminated
  \/ \E rc \in ExitCodes : ProcReaped(rc)
  \/ \E ch \in Channels : ReaderStep(ch)
  \/ \E ch \in Channels : ReaderFail(ch)
  \/ StreamEmit
  \/ StreamBreakOnTimeout
  \/ StreamBreak
  \/ WaitExit
  \/ Tick
  \/ \E t \in StopThreads, d \in Timeouts : StopBegin(t, "sA", d)
  \/ \E t \in StopThreads : Phase1Step(t)
  \/ \E t \in StopThreads : Phase1End(t)
  \/ \E t \in StopThreads : PollSleep(t)
  \/ \E t \in StopThreads : PollScan(t)
  \/ \E t \in StopThreads : PollScanEnd(t)
  \/ \E t \in StopThreads : PollExit(t)
  \/ \E t \in StopThreads : Phase2Step(t)
  \/ \E t \in StopThreads : StopReturn(t)

SpecCancel == InitSSE /\ [][NextCancel]_vars

\* C21: the terminal event of a stream whose subprocess was ended by a signal
\* of stop_session is not an error event.
C21_CancelDistinctFromFailure ==
  (sse.pc = "done" /\ proc.state = "exited" /\ proc.rc \in {SIGTERMED, SIGKILLED})
    => Last(events).type # "error"

\* the line-derived events delivered or still queued, in that order
Delivery == events \o queue

\* C24: the events of one channel are delivered in the order of their lines,
\* none twice, and when the stream has emitted its terminal event no event
\* is left on the delivery queue.
C24_OrderedNoLoss ==
  /\ \A i, j \in 1..Len(Delivery) :
       (i < j /\ Delivery[i].src = "line" /\ Delivery[j].src = "line"
          /\ Delivery[i].ch = Delivery[j].ch)
         => Delivery[i].n < Delivery[j].n
  /\ sse.pc = "done" => queue = <<>>
\* ------------------------------------------------------------------------
\* Extraction engine: load_zotero_to_dataframe_incremental
\* (scripts/rad_dataframe.py)
\* ------------------------------------------------------------------------
exOther == <<pmVars, sseVars, engVars>>

AttSeqs == UNION {[1..n -> AttKinds] : n \in 0..MaxAtts}

\* Item identifiers are distinct; at most one item of a source lacks its key.
Sources ==
  {[items |-> [i \in 1..MaxItems |->
                 [key |-> IF i = kl THEN NoKey ELSE i, atts |-> at[i]]],
    workers |-> w] :
     kl \in 0..MaxItems, at \in [1..MaxItems -> AttSeqs], w \in PoolSizes}

Record(key, idx, a) == [itemKey |-> key, idx |-> idx, att |-> a]

Error(key, type, a) == [itemKey |-> key, error_type |-> type, att |-> a]

\* lines 869-947: the attachments of one item from attachment a on; recs and
\* errs are the records and errors gathered so far, n the OCR calls made.
RECURSIVE ProcessAttachments(_, _, _, _, _, _)
ProcessAttachments(item, idx, a, recs, errs, n) ==
  IF a > Len(item.atts)
  THEN [item_key |-> item.key, records |-> recs, errors |-> errs,
        success |-> TRUE, ocr |-> n]
  ELSE LET kind == item.atts[a]
       IN CASE kind = "nonpdf" ->
                 ProcessAttachments(item, idx, a + 1, recs, errs, n)
            [] kind = "missing" ->
                 ProcessAttachments(item, idx, a + 1, recs,
                   Append(errs, Error(item.key, "PDF_NOT_FOUND", a)), n)
            [] kind = "ok" ->
                 ProcessAttachments(item, idx, a + 1,
                   Append(recs, Record(item.key, idx, a)), errs, n + 1)
            [] kind = "ocrfail" ->
                 ProcessAttachments(item, idx, a + 1, recs,
                   Append(errs, Error(item.key, "OCR_FAILED", a)), n + 1)
            [] OTHER ->
                 \* any other exception: lines 933-947
                 [item_key |-> item.key, records |-> <<>>,
                  errors |-> Append(errs, Error(item.key, "PROCESSING_ERROR", a)),
                  success |-> FALSE, ocr |-> n]

\* lines 823-947
_process_single_zotero_item(item, idx) ==
  ProcessAttachments(item, idx, 1, <<>>, <<>>, 0)

\* Faulty variant: also counts as processed every item that has a row in the journal.
load_progress_with_journal(f) ==
  (IF f.state = "valid" THEN f.keys ELSE {})
    \cup {journal[k].itemKey : k \in 1..Len(journal)}

\* lines 293-313: an absent or unreadable file loads as the empty set.
load_progress(f) == IF f.state = "valid" THEN f.keys ELSE {}

\* lines 316-335
save_progress(keys) == [state |-> "valid", keys |-> keys]

\* Faulty variant: ignores the checkpoint.
ItemsToProcess_all(items, processed) == [i \in 1..Len(items) |-> i]

\* lines 1011-1016: the indices of the items that need processing.
ItemsToProcess(items, processed) ==
  SelectSeq([i \in 1..Len(items) |-> i],
            LAMBDA i : items[i].key = NoKey \/ items[i].key \notin processed)

\* Faulty variant: the loop over result.records stops one record early.
RecordsLeft_skip_last(f) == f.ri < Len(f.records)

\* lines 1048 / 1108: for record in result.records
RecordsLeft(f) == f.ri <= Len(f.records)

\* Faulty variant: the identifier is added whether it is empty or not.
MarkProcessed_always(keys, item_key) == keys \cup {item_key}

\* Faulty variant: every item is reported as keyless, so none is checkpointed.
MarkProcessed_never(keys, item_key) == keys

\* lines 1059-1061 / 1117-1118: if result.item_key: processed_keys.add(...)
MarkProcessed(keys, item_key) ==
  IF item_key # NoKey THEN keys \cup {item_key} ELSE keys

\* Faulty variant: the count of finished items starts at zero on every run.
count_already_done_zero(processed_keys) == 0

\* line 1007: already_done = len(processed_keys)
count_already_done(processed_keys) == Cardinality(processed_keys)

\* Faulty variant: the total counts only the items left to process.
total_items_remaining(items, todo) == Len(todo)

\* line 1006: total_items = len(items)
total_items(items, todo) == Len(items)

InitMarker(total) == [type |-> "init", current |-> 0, total |-> total]

RowMarker(current, total) == [type |-> "row", current |-> current, total |-> total]

InitEx ==
  /\ InitPMVars /\ InitSSEVars
  /\ src \in Sources
  /\ InitExFiles
  /\ InitEngIdle

Running == run.pc \in {"seq", "par", "finalize"}

\* lines 980-1003, failure: the source cannot be read or parsed; the handler
\* of line 1125 logs it and the run goes on to save_errors.
ExStartLoadFails ==
  /\ run.pc \in {"idle", "done", "crashed"}
  /\ nrun < MaxRuns
  /\ nrun' = nrun + 1
  /\ run' = [IdleRun EXCEPT !.pc = "finalize",
                            !.processed_keys = load_progress(ckfile),
                            !.loaded_keys = load_progress(ckfile),
                            !.journal0 = Len(journal)]
  /\ out' = <<>>
  /\ UNCHANGED <<src, journal, ckfile, errfile, wk, orphans, exOther>>

\* lines 1001-1003: the source is valid JSON of another shape; return at once.
ExStartBadFormat ==
  /\ run.pc \in {"idle", "done", "crashed"}
  /\ nrun < MaxRuns
  /\ nrun' = nrun + 1
  /\ run' = [IdleRun EXCEPT !.pc = "done",
                            !.processed_keys = load_progress(ckfile),
                            !.loaded_keys = load_progress(ckfile),
                            !.journal0 = Len(journal)]
  /\ out' = <<>>
  /\ UNCHANGED <<src, journal, ckfile, errfile, wk, orphans, exOther>>

\* lines 980-1025: load the checkpoint and the source, select the items,
\* print the init marker, choose the mode.
ExStart ==
  /\ run.pc \in {"idle", "done", "crashed"}
  /\ nrun < MaxRuns
  /\ nrun' = nrun + 1
  /\ LET processed == load_progress(ckfile)
         todo == ItemsToProcess(src.items, processed)
         total == total_items(src.items, todo)
     IN /\ run' = [IdleRun EXCEPT
                     !.pc = IF src.workers > 1 /\ Len(todo) > 1 THEN "par" ELSE "seq",
                     !.processed_keys = processed,
                     !.todo = todo,
                     !.already_done = count_already_done(processed),
                     !.total_items = total,
                     !.item_count = count_already_done(processed),
                     !.loaded = TRUE,
                     !.loaded_keys = processed,
                     !.journal0 = Len(journal)]
        /\ out' = <<InitMarker(total)>>
  /\ UNCHANGED <<src, journal, ckfile, errfile, wk, orphans, exOther>>

\* ---- sequential mode, lines 1099-1123 ----------------------------------
\* lines 1100-1105: next item; item_count += 1; process it.
SeqProcess ==
  /\ run.pc = "seq"
  /\ wk[1].pc = "idle"
  /\ run.todo # <<>>
  /\ LET idx == Head(run.todo)
         res == _process_single_zotero_item(src.items[idx], idx)
     IN /\ wk' = [wk EXCEPT ![1] = [pc |-> "save", idx |-> idx,
                                    item_key |-> res.item_key,
                                    records |-> res.records,
                                    errors |-> res.errors, ri |-> 1]]
        /\ run' = [run EXCEPT !.todo = Tail(@), !.item_count = @ + 1,
                              !.ocr_calls = @ + res.ocr]
  /\ UNCHANGED <<src, journal, ckfile, errfile, out, nrun, orphans, exOther>>

\* lines 1108-1111: append one record to the journal.
SeqAppend ==
  /\ run.pc = "seq"
  /\ wk[1].pc = "save"
  /\ RecordsLeft(wk[1])
  /\ journal' = Append(journal, wk[1].records[wk[1].ri])
  /\ wk' = [wk EXCEPT ![1].ri = @ + 1]
  /\ UNCHANGED <<src, ckfile, errfile, run, out, nrun, orphans, exOther>>

\* lines 1114-1119: collect the errors, mark the item, persist the checkpoint.
SeqMark ==
  /\ run.pc = "seq"
  /\ wk[1].pc = "save"
  /\ ~RecordsLeft(wk[1])
  /\ LET keys == MarkProcessed(run.processed_keys, wk[1].item_key)
     IN /\ run' = [run EXCEPT !.all_errors = @ \o wk[1].errors,
                              !.processed_keys = keys]
        /\ ckfile' = IF wk[1].item_key # NoKey THEN save_progress(keys) ELSE ckfile
  /\ wk' = [wk EXCEPT ![1].pc = "emit"]
  /\ UNCHANGED <<src, journal, errfile, out, nrun, orphans, exOther>>

\* lines 1122-1123: print the row marker.
SeqEmit ==
  /\ run.pc = "seq"
  /\ wk[1].pc = "emit"
  /\ out' = Append(out, RowMarker(run.item_count, run.total_items))
  /\ wk' = [wk EXCEPT ![1] = IdleWorker]
  /\ UNCHANGED <<src, journal, ckfile, errfile, run, nrun, orphans, exOther>>

\* the for loop of line 1100 is exhausted
SeqEnd ==
  /\ run.pc = "seq"
  /\ wk[1].pc = "idle"
  /\ run.todo = <<>>
  /\ run' = [run EXCEPT !.pc = "finalize"]
  /\ UNCHANGED <<src, journal, ckfile, errfile, wk, out, nrun, orphans, exOther>>

\* ---- parallel mode, lines 1034-1091 ------------------------------------
\* lines 1036-1042: a pool thread takes the next submitted item and
\* re-checks it against processed_keys.
ParTake(w) ==
  /\ run.pc = "par"
  /\ wk[w].pc = "idle"
  /\ run.todo # <<>>
  /\ LET idx == Head(run.todo)
         key == src.items[idx].key
     IN wk' = [wk EXCEPT ![w] =
                 IF key # NoKey /\ key \in run.processed_keys
                 THEN IdleWorker
                 ELSE [IdleWorker EXCEPT !.pc = "process", !.idx = idx]]
  /\ run' = [run EXCEPT !.todo = Tail(@)]
  /\ UNCHANGED <<src, journal, ckfile, errfile, out, nrun, orphans, exOther>>

\* line 1045
ParProcess(w) ==
  /\ run.pc = "par"
  /\ wk[w].pc = "process"
  /\ LET res == _process_single_zotero_item(src.items[wk[w].idx], wk[w].idx)
     IN /\ wk' = [wk EXCEPT ![w] = [pc |-> "save", idx |-> wk[w].idx,
                                    item_key |-> res.item_key,
                                    records |-> res.records,
                                    errors |-> res.errors, ri |-> 1]]
        /\ run' = [run EXCEPT !.ocr_calls = @ + res.ocr]
  /\ UNCHANGED <<src, journal, ckfile, errfile, out, nrun, orphans, exOther>>

\* lines 1048-1051: append one record under _CSV_LOCK.
ParAppend(w) ==
  /\ run.pc = "par"
  /\ wk[w].pc = "save"
  /\ RecordsLeft(wk[w])
  /\ journal' = Append(journal, wk[w].records[wk[w].ri])
  /\ wk' = [wk EXCEPT ![w].ri = @ + 1]
  /\ UNCHANGED <<src, ckfile, errfile, run, out, nrun, orphans, exOther>>

\* lines 1054-1056: extend all_errors under errors_lock.
ParCollect(w) ==
  /\ run.pc = "par"
  /\ wk[w].pc = "save"
  /\ ~RecordsLeft(wk[w])
  /\ run' = [run EXCEPT !.all_errors = @ \o wk[w].errors]
  /\ wk' = [wk EXCEPT ![w].pc = "mark"]
  /\ UNCHANGED <<src, journal, ckfile, errfile, out, nrun, orphans, exOther>>

\* lines 1059-1062: add the key and persist, both under processed_keys_lock.
ParMark(w) ==
  /\ run.pc = "par"
  /\ wk[w].pc = "mark"
  /\ LET keys == MarkProcessed(run.processed_keys, wk[w].item_key)
     IN /\ run' = [run EXCEPT !.processed_keys = keys]
        /\ ckfile' = IF wk[w].item_key # NoKey THEN save_progress(keys) ELSE ckfile
  /\ wk' = [wk EXCEPT ![w].pc = "emit"]
  /\ UNCHANGED <<src, journal, errfile, out, nrun, orphans, exOther>>

\* lines 1065-1069: count the item and print the row marker.
ParEmit(w) ==
  /\ run.pc = "par"
  /\ wk[w].pc = "emit"
  /\ run' = [run EXCEPT !.completed_count = @ + 1]
  /\ out' = Append(out, RowMarker(run.already_done + run.completed_count + 1,
                                  run.total_items))
  /\ wk' = [wk EXCEPT ![w] = IdleWorker]
  /\ UNCHANGED <<src, journal, ckfile, errfile, nrun, orphans, exOther>>

\* lines 1072-1091: all futures are done.
ParEnd ==
  /\ run.pc = "par"
  /\ run.todo = <<>>
  /\ \A w \in WorkerIds : wk[w].pc = "idle"
  /\ run' = [run EXCEPT !.pc = "finalize"]
  /\ UNCHANGED <<src, journal, ckfile, errfile, wk, out, nrun, orphans, exOther>>

\* lines 1128-1138: save_errors rewrites the errors file.
Finalize ==
  /\ run.pc = "finalize"
  /\ errfile' = run.all_errors
  /\ run' = [run EXCEPT !.pc = "done"]
  /\ UNCHANGED <<src, journal, ckfile, wk, out, nrun, orphans, exOther>>

\* ---- crashes -------------------------------------------------------------
\* The identifiers that checkpoint file f holds.
PersistedKeys(f) == IF f.state = "valid" THEN f.keys ELSE {}

\* The rows this run appended for items that file f does not hold.
Unmarked(f) ==
  {journal[k] : k \in {j \in (run.journal0 + 1)..Len(journal) :
                         journal[j].itemKey \notin PersistedKeys(f)}}

\* The process dies; only the files survive.
Crash ==
  /\ Running
  /\ orphans' = orphans \cup Unmarked(ckfile)
  /\ run' = [IdleRun EXCEPT !.pc = "crashed"]
  /\ wk' = [w \in WorkerIds |-> IdleWorker]
  /\ out' = <<>>
  /\ UNCHANGED <<src, journal, ckfile, errfile, nrun, exOther>>

\* The process dies inside save_progress, between open(.., 'w') and the end
\* of json.dump: the checkpoint file is left truncated.
CrashInSave ==
  /\ \/ run.pc = "seq" /\ wk[1].pc = "save" /\ ~RecordsLeft(wk[1]) /\ wk[1].item_key # NoKey
     \/ run.pc = "par" /\ \E w \in WorkerIds : wk[w].pc = "mark" /\ wk[w].item_key # NoKey
  /\ ckfile' = [state |-> "truncated", keys |-> {}]
  /\ orphans' = orphans \cup Unmarked(ckfile')
  /\ run' = [IdleRun EXCEPT !.pc = "crashed"]
  /\ wk' = [w \in WorkerIds |-> IdleWorker]
  /\ out' = <<>>
  /\ UNCHANGED <<src, journal, errfile, nrun, exOther>>

NextEx ==
  \/ ExStartLoadFails
  \/ ExStartBadFormat
  \/ ExStart
  \/ SeqProcess
  \/ SeqAppend
  \/ SeqMark
  \/ SeqEmit
  \/ SeqEnd
  \/ \E w \in WorkerIds : ParTake(w)
  \/ \E w \in WorkerIds : ParProcess(w)
  \/ \E w \in WorkerIds : ParAppend(w)
  \/ \E w \in WorkerIds : ParCollect(w)
  \/ \E w \in WorkerIds : ParMark(w)
  \/ \E w \in WorkerIds : ParEmit(w)
  \/ ParEnd
  \/ Finalize
  \/ Crash
  \/ CrashInSave

SpecEx == InitEx /\ [][NextEx]_vars

TypeOKEx ==
  /\ nrun \in 0..MaxRuns
  /\ ckfile.state \in {"absent", "valid", "truncated"}
\* ------------------------------------------------------------------------
\* Properties of the extraction engine (checked under SpecEx)
\* ------------------------------------------------------------------------
Items == src.items

AllKeyed == \A i \in 1..Len(Items) : Items[i].key # NoKey

AttsOf(kind) ==
  {<<i, a>> \in (1..Len(Items)) \X (1..MaxAtts) :
     a <= Len(Items[i].atts) /\ Items[i].atts[a] = kind}

OkRecords == {Record(Items[p[1]].key, p[1], p[2]) : p \in AttsOf("ok")}

NotFoundErrors == {Error(Items[p[1]].key, "PDF_NOT_FOUND", p[2]) : p \in AttsOf("missing")}

Count(q, x) == Cardinality({k \in 1..Len(q) : q[k] = x})

FirstRunDone == nrun = 1 /\ run.pc = "done" /\ run.loaded

AllCheckpointed ==
  /\ run.loaded
  /\ \A i \in 1..Len(Items) : Items[i].key # NoKey /\ Items[i].key \in run.loaded_keys

\* C8: a run that finds every item in the loaded checkpoint prints the init
\* marker with total = number of items and no progress marker, makes no OCR
\* call, appends nothing to the journal and leaves the checkpoint's keys as
\* they were.
C8_RerunIsNoop ==
  (run.pc \in {"seq", "par", "finalize", "done"} /\ AllCheckpointed)
    => /\ out = <<InitMarker(Len(Items))>>
       /\ run.ocr_calls = 0
       /\ Len(journal) = run.journal0
       /\ PersistedKeys(ckfile) = run.loaded_keys

\* C8 witness: a second run over a completed extraction has finished.
C8_Witness ==
  /\ run.pc = "done" /\ AllCheckpointed /\ nrun > 1
  /\ journal # <<>>

C10_ResumeDuplicates ==
  (run.pc = "done" /\ run.loaded)
    => \A r \in orphans : Count(journal, r) >= 2

\* C10 witness: a resumed run has completed after a crash that had left a
\* record of a keyed item without checkpoint entry.
C10_Witness ==
  /\ run.pc = "done" /\ run.loaded
  /\ \E r \in orphans : r.itemKey # NoKey /\ Count(journal, r) = 2

\* ------------------------------------------------------------------------
\* Journal append: append_record_to_csv called from the pool threads
\* (scripts/rad_dataframe.py, lines 338-366 and 1047-1051)
\* ------------------------------------------------------------------------
\* records each pool thread has to append
MaxAppends == 2
\* writes the buffered writer needs to put one row on disk
RowParts == 2

csvOther == <<pmVars, sseVars, exVars, ocrVars, tqVars, fnVars, trkVars>>

HeaderChunk == [kind |-> "header", w |-> 0, n |-> 0, part |-> 0]

RowChunk(w, n, part) == [kind |-> "row", w |-> w, n |-> n, part |-> part]

\* the n-th record of thread w, as the chunks that reach the file in order
RowChunks(w, n) == [p \in 1..RowParts |-> RowChunk(w, n, p)]

\* Faulty variant: the lock never excludes anyone.
LockFree_always(l) == TRUE

\* threading.Lock: can `with _CSV_LOCK` enter?
LockFree(l) == l = 0

\* The output file before the run: absent, or left by an earlier run with
\* its header and one row.
InitCsv ==
  /\ InitPMVars /\ InitSSEVars /\ InitExIdle
  /\ csvfile \in {[exists |-> FALSE, data |-> <<>>],
                  [exists |-> TRUE, data |-> <<HeaderChunk>> \o RowChunks(0, 1)]}
  /\ csvlock = 0
  /\ aw = [w \in WorkerIds |-> IdleAppend]
  /\ InitOcrIdle /\ InitTqIdle /\ InitFnIdle /\ InitTrkIdle

\* line 353: with _CSV_LOCK (enter)
CsvAcquire(w) ==
  /\ aw[w].pc = "idle"
  /\ aw[w].n < MaxAppends
  /\ LockFree(csvlock)
  /\ csvlock' = w
  /\ aw' = [aw EXCEPT ![w].pc = "locked"]
  /\ UNCHANGED <<csvfile, csvOther>>

\* line 354: file_exists = os.path.exists(output_csv)
CsvCheckExists(w) ==
  /\ aw[w].pc = "locked"
  /\ aw' = [aw EXCEPT ![w].pc = "checked", ![w].file_exists = csvfile.exists]
  /\ UNCHANGED <<csvfile, csvlock, csvOther>>

\* line 357: open(output_csv, 'a') creates the file if it is not there
CsvOpen(w) ==
  /\ aw[w].pc = "checked"
  /\ csvfile' = [csvfile EXCEPT !.exists = TRUE]
  /\ aw' = [aw EXCEPT ![w].pc = "open"]
  /\ UNCHANGED <<csvlock, csvOther>>

\* lines 357, 364-366: open raises; the handler logs and re-raises, the with
\* statement releases the lock and process_and_save ends with the exception.
CsvOpenFails(w) ==
  /\ aw[w].pc = "checked"
  /\ csvlock' = 0
  /\ aw' = [aw EXCEPT ![w].pc = "failed"]
  /\ UNCHANGED <<csvfile, csvOther>>

\* lines 358-363: writeheader if the file did not exist, then writerow
CsvWrite(w) ==
  /\ aw[w].pc = "open"
  /\ aw' = [aw EXCEPT ![w].pc = "flush",
                      ![w].buf = (IF aw[w].file_exists THEN <<>> ELSE <<HeaderChunk>>)
                                   \o RowChunks(w, aw[w].n + 1)]
  /\ UNCHANGED <<csvfile, csvlock, csvOther>>

\* the buffered writer puts its next chunk on disk (at the latest on close)
CsvFlush(w) ==
  /\ aw[w].pc = "flush"
  /\ aw[w].buf # <<>>
  /\ csvfile' = [csvfile EXCEPT !.data = Append(@, Head(aw[w].buf))]
  /\ aw' = [aw EXCEPT ![w].buf = Tail(@)]
  /\ UNCHANGED <<csvlock, csvOther>>

\* end of the with open(...) block: the file is closed
CsvClose(w) ==
  /\ aw[w].pc = "flush"
  /\ aw[w].buf = <<>>
  /\ aw' = [aw EXCEPT ![w].pc = "closed"]
  /\ UNCHANGED <<csvfile, csvlock, csvOther>>

\* end of the with _CSV_LOCK block; back in the loop of line 1048
CsvRelease(w) ==
  /\ aw[w].pc = "closed"
  /\ csvlock' = 0
  /\ aw' = [aw EXCEPT ![w].pc = "idle", ![w].n = @ + 1]
  /\ UNCHANGED <<csvfile, csvOther>>

NextCsv ==
  \/ \E w \in WorkerIds : CsvAcquire(w)
  \/ \E w \in WorkerIds : CsvCheckExists(w)
  \/ \E w \in WorkerIds : CsvOpen(w)
  \/ \E w \in WorkerIds : CsvOpenFails(w)
  \/ \E w \in WorkerIds : CsvWrite(w)
  \/ \E w \in WorkerIds : CsvFlush(w)
  \/ \E w \in WorkerIds : CsvClose(w)
  \/ \E w \in WorkerIds : CsvRelease(w)

SpecCsv == InitCsv /\ [][NextCsv]_vars

\* threads inside the body of append_record_to_csv
Appending == {w \in WorkerIds : aw[w].pc \in {"locked", "checked", "open", "flush", "closed"}}

\* the chunks of the file from position k on are one complete row
CompleteRowAt(d, k) ==
  /\ k + RowParts - 1 <= Len(d)
  /\ \A p \in 1..RowParts : d[k + p - 1] = RowChunk(d[k].w, d[k].n, p)

\* C11: appends from concurrent pool threads are serialized: at most one
\* thread is inside append_record_to_csv; the file is a header, written once
\* and first, followed by rows whose chunks are contiguous and in order; the
\* only incomplete row is the last one, while its append is still flushing;
\* and the header was put there by the append that found no file.
C11_AppendsSerialized ==
  LET d == csvfile.data
      whole == IF \E w \in WorkerIds : aw[w].pc = "flush" /\ aw[w].buf # <<>>
               THEN Len(d) - ((Len(d) - 1) % RowParts)
               ELSE Len(d)
  IN /\ Cardinality(Appending) <= 1
     /\ d # <<>> => d[1] = HeaderChunk
     /\ \A k \in 2..Len(d) : d[k].kind = "row"
     /\ \A k \in 2..whole : (k - 2) % RowParts = 0 => CompleteRowAt(d, k)
     /\ (Appending = {} /\ d # <<>>) => (Len(d) - 1) % RowParts = 0
     /\ \A w \in WorkerIds :
          aw[w].pc \in {"open", "flush", "closed"} /\ ~aw[w].file_exists
            => \A k \in 2..Len(d) : d[k].w = w /\ d[k].n = 1

\* C11 witness: both threads have appended to a file that the first append
\* created, and the rows of the two threads alternate in it.
C11_Witness ==
  LET d == csvfile.data
  IN /\ Appending = {}
     /\ Len(d) = 1 + 4 * RowParts
     /\ d[1] = HeaderChunk
     /\ d[2].w # d[2 + RowParts].w
     /\ d[2 + RowParts].w # d[2 + 2 * RowParts].w

\* ------------------------------------------------------------------------
\* Sequential and parallel mode compared (lines 1025-1123)
\* ------------------------------------------------------------------------
\* Any export: nothing makes the identifiers of a source distinct, so two
\* items may carry the same key.
AnySources ==
  {[items |-> [i \in 1..MaxItems |-> [key |-> ks[i], atts |-> at[i]]],
    workers |-> w] :
     ks \in [1..MaxItems -> {NoKey} \cup (1..MaxItems)],
     at \in [1..MaxItems -> AttSeqs], w \in PoolSizes}

InitExAny ==
  /\ InitPMVars /\ InitSSEVars
  /\ src \in AnySources
  /\ InitExFiles
  /\ InitEngIdle

SpecExAny == InitExAny /\ [][NextEx]_vars

\* lines 1099-1119 as a function: the sequential loop over todo, started
\* with the record set recs, the error set errs and the checkpoint keys.
RECURSIVE SeqLoop(_, _, _, _, _)
SeqLoop(items, todo, recs, errs, keys) ==
  IF todo = <<>>
  THEN [records |-> recs, errors |-> errs, keys |-> keys]
  ELSE LET idx == Head(todo)
           res == _process_single_zotero_item(items[idx], idx)
       IN SeqLoop(items, Tail(todo), recs \cup Range(res.records),
                  errs \cup Range(res.errors), MarkProcessed(keys, res.item_key))

\* what a sequential run of the current source from the checkpoint this run
\* loaded ends with
SeqOutcome ==
  SeqLoop(Items, ItemsToProcess(Items, run.loaded_keys), {}, {}, run.loaded_keys)

\* the records the current run has appended
Appended == {journal[k] : k \in (run.journal0 + 1)..Len(journal)}

\* C12: a completed run, whichever mode it used, has appended the set of
\* records, saved the set of errors and persisted the checkpoint that the
\* sequential loop yields for the same source and initial checkpoint.
C12_ModesAgree ==
  (run.pc = "done" /\ run.loaded)
    => /\ Appended = SeqOutcome.records
       /\ Range(errfile) = SeqOutcome.errors
       /\ PersistedKeys(ckfile) = SeqOutcome.keys

\* ------------------------------------------------------------------------
\* OCR of one attachment: retry wrapper, provider chain, rate limit
\* (scripts/rad_dataframe.py, lines 35-46, 391-450, 499-640, 724-800, 896-924)
\* ------------------------------------------------------------------------
MAX_RETRIES == 3
RETRY_BACKOFF_BASE == 2

ocrOther == <<pmVars, sseVars, exVars, csvVars, tqVars, fnVars, trkVars>>

\* how a call to a remote provider ends: text, a network-class exception
\* (requests.RequestException, HTTP error), or an empty / unusable response
\* (OCRExtractionError)
RemoteOutcomes == {"ok", "transient", "empty"}
\* _extract_text_with_legacy_pdf never raises: text or the empty string
LegacyOutcomes == {"ok", "empty"}

RECURSIVE Pow(_, _)
Pow(b, e) == IF e = 0 THEN 1 ELSE b * Pow(b, e - 1)

\* Faulty variant: a failed attempt is never followed by another one.
OnAttemptOutcome_no_retry(f, outcome) ==
  IF outcome = "ok"
  THEN [f EXCEPT !.pc = "done", !.result = "returned"]
  ELSE [f EXCEPT !.pc = "done", !.result = "raised", !.attempt = @ + 1]

\* lines 415-450: what extract_text_with_ocr_retry does with the outcome of
\* attempt f.attempt of the wrapped call ("ok": it returned; "extraction_error":
\* it raised OCRExtractionError; "transient" / "other": any other exception).
OnAttemptOutcome(f, outcome) ==
  CASE outcome = "ok" ->
         [f EXCEPT !.pc = "done", !.result = "returned"]
    [] outcome = "extraction_error" ->
         [f EXCEPT !.pc = "done", !.result = "raised"]
    [] OTHER ->
         IF f.attempt < MAX_RETRIES - 1
         THEN [f EXCEPT !.pc = "again", !.attempt = @ + 1,
                        !.waits = Append(@, Pow(RETRY_BACKOFF_BASE, f.attempt))]
         ELSE [f EXCEPT !.pc = "done", !.result = "raised", !.attempt = @ + 1]

\* Faulty variant: a remote provider is called whether or not its key is set.
HasCredential_always(c, p) == TRUE

\* lines 752, 767-768: is the credential of remote provider p configured?
HasCredential(c, p) ==
  IF p = "mistral" THEN c.mistral_key ELSE c.openai_key

\* lines 767-792: where the chain goes after the remote OCR provider
AfterMistral(c) == IF HasCredential(c, "openai") THEN "o_call" ELSE "legacy"

\* lines 750-756: where the chain starts
ChainEntry(c) == IF HasCredential(c, "mistral") THEN "m_wait" ELSE AfterMistral(c)

\* Faulty variant: the permit is given back only when the call returns.
ReleaseOn_success_only(outcome, permits) ==
  IF outcome = "ok" THEN permits + 1 ELSE permits

\* lines 524-640: leaving `with MISTRAL_SEMAPHORE`, by return or exception
ReleaseOn(outcome, permits) == permits + 1

\* provider p was called and ended with outcome o
Tried(f, p, o) == [f EXCEPT !.provs = Append(@, p), !.outs = Append(@, o)]

\* lines 756, 772, 794: _finalize_ocr_result(text, provider, ...) returned
\* through the wrapper to line 898
Returned(f, p) == [OnAttemptOutcome(f, "ok") EXCEPT !.provider = p]

InitOcr ==
  /\ InitPMVars /\ InitSSEVars /\ InitExIdle /\ InitCsvIdle /\ InitTqIdle /\ InitFnIdle /\ InitTrkIdle
  /\ cfg \in [mistral_key : BOOLEAN, openai_key : BOOLEAN, limit : 1..MaxLimit]
  /\ sem = cfg.limit
  /\ ocr = [w \in OcrThreads |-> IdleOcr]
  /\ script = <<>>

\* lines 898, 415-417, 750-752: a pool thread calls the wrapper for an
\* attachment; the wrapper makes its first call of extract_text_with_ocr.
OcrBegin(w) ==
  /\ ocr[w].pc = "idle"
  /\ ocr' = [ocr EXCEPT ![w] = [IdleOcr EXCEPT !.pc = ChainEntry(cfg), !.calls = 1]]
  /\ UNCHANGED <<cfg, sem, script, ocrOther>>

\* line 524: with MISTRAL_SEMAPHORE (enter); blocks while no permit is left
MistralAcquire(w) ==
  /\ ocr[w].pc = "m_wait"
  /\ sem > 0
  /\ sem' = sem - 1
  /\ ocr' = [ocr EXCEPT ![w].pc = "m_call"]
  /\ UNCHANGED <<cfg, script, ocrOther>>

\* lines 526-640 and 755-763: the call to the remote OCR provider ends; a
\* result is returned, any exception is caught by the chain, which goes on.
MistralReturn(w, o) ==
  /\ ocr[w].pc = "m_call"
  /\ sem' = ReleaseOn(o, sem)
  /\ LET f == Tried(ocr[w], "mistral", o)
     IN ocr' = [ocr EXCEPT ![w] = IF o = "ok" THEN Returned(f, "mistral")
                                   ELSE [f EXCEPT !.pc = AfterMistral(cfg)]]
  /\ UNCHANGED <<cfg, script, ocrOther>>

\* lines 768-779: the vision LLM
OpenaiCall(w, o) ==
  /\ ocr[w].pc = "o_call"
  /\ LET f == Tried(ocr[w], "openai", o)
     IN ocr' = [ocr EXCEPT ![w] = IF o = "ok" THEN Returned(f, "openai")
                                   ELSE [f EXCEPT !.pc = "legacy"]]
  /\ UNCHANGED <<cfg, sem, script, ocrOther>>

\* lines 792-800 and 422-424, 915-924: local text-layer extraction; without
\* text the chain raises OCRExtractionError, the wrapper re-raises it and the
\* caller records OCR_FAILED.
LegacyCall(w, o) ==
  /\ ocr[w].pc = "legacy"
  /\ LET f == Tried(ocr[w], "legacy", o)
     IN ocr' = [ocr EXCEPT ![w] = IF o = "ok" THEN Returned(f, "legacy")
                                   ELSE OnAttemptOutcome(f, "extraction_error")]
  /\ UNCHANGED <<cfg, sem, script, ocrOther>>

NextOcr ==
  \/ \E w \in OcrThreads : OcrBegin(w)
  \/ \E w \in OcrThreads : MistralAcquire(w)
  \/ \E w \in OcrThreads, o \in RemoteOutcomes : MistralReturn(w, o)
  \/ \E w \in OcrThreads, o \in RemoteOutcomes : OpenaiCall(w, o)
  \/ \E w \in OcrThreads, o \in LegacyOutcomes : LegacyCall(w, o)

SpecOcr == InitOcr /\ [][NextOcr]_vars

\* calls to the remote OCR provider that are under way
InFlight == {w \in OcrThreads : ocr[w].pc = "m_call"}

\* C13: the calls in flight to the rate-limited provider never exceed
\* MISTRAL_CONCURRENT_CALLS, whatever the pool size, and every call gives its
\* permit back however it ends: permits left plus calls in flight is always
\* the limit.
C13_RateLimit ==
  /\ Cardinality(InFlight) <= cfg.limit
  /\ sem >= 0
  /\ sem + Cardinality(InFlight) = cfg.limit

\* C13 witness: more threads than permits; one call is in flight, another
\* thread waits for the permit, after an earlier call ended with an exception.
C13_Witness ==
  /\ cfg.limit < MaxOcrThreads
  /\ Cardinality(InFlight) = cfg.limit
  /\ \E w \in OcrThreads : ocr[w].pc = "m_wait"
  /\ \E w \in OcrThreads : ocr[w].provs # <<>> /\ ocr[w].outs[1] = "transient"
                           /\ ocr[w].pc # "m_call"

\* a provider call of thread w failed with a network-class error
SawTransient(w) == \E k \in 1..Len(ocr[w].outs) : ocr[w].outs[k] = "transient"

\* C14: an attachment whose extraction met a transient provider failure is
\* recorded as OCR_FAILED only after extract_text_with_ocr was invoked
\* MAX_RETRIES times, with waits of RETRY_BACKOFF_BASE^attempt in between.
C14_TransientIsRetried ==
  \A w \in OcrThreads :
    (ocr[w].pc = "done" /\ ocr[w].result = "raised" /\ SawTransient(w))
      => /\ ocr[w].calls = MAX_RETRIES
         /\ ocr[w].waits = [i \in 1..(MAX_RETRIES - 1) |-> Pow(RETRY_BACKOFF_BASE, i - 1)]

\* the remote providers whose credential is set, then the local extraction
ChainOrder ==
  SelectSeq(<<"mistral", "openai">>, LAMBDA p : IF p = "mistral" THEN cfg.mistral_key
                                                 ELSE cfg.openai_key)
    \o <<"legacy">>

\* C16: extract_text_with_ocr calls the providers in the order remote OCR,
\* vision LLM, local extraction, leaving out a remote provider without
\* credential; it stops at the first provider that yields text and returns
\* it tagged with that provider; when none yields text it raises the
\* extraction error, and the wrapper makes no second call.
C16_ChainOrder ==
  \A w \in OcrThreads :
    LET f == ocr[w]
        n == Len(f.provs)
    IN /\ n <= Len(ChainOrder)
       /\ \A k \in 1..n : f.provs[k] = ChainOrder[k]
       /\ \A k \in 1..(n - 1) : f.outs[k] # "ok"
       /\ (n > 0 /\ f.outs[n] = "ok")
            => f.pc = "done" /\ f.result = "returned" /\ f.provider = f.provs[n]
       /\ (f.pc = "done" /\ f.result = "returned") => (n > 0 /\ f.outs[n] = "ok")
       /\ (f.pc = "done" /\ f.result = "raised") => f.provs = ChainOrder
       /\ (n = Len(ChainOrder) /\ f.outs[n] # "ok")
            => f.pc = "done" /\ f.result = "raised" /\ f.calls = 1 /\ f.waits = <<>>

\* C16 witness: with only the vision LLM's credential set, one thread got
\* its text from the local extraction after the vision LLM failed, and
\* another one ended with the extraction error after both had failed.
C16_Witness ==
  /\ ~cfg.mistral_key /\ cfg.openai_key
  /\ \E w \in OcrThreads :
       /\ ocr[w].pc = "done" /\ ocr[w].result = "returned"
       /\ ocr[w].provs = <<"openai", "legacy">> /\ ocr[w].provider = "legacy"
  /\ \E w \in OcrThreads :
       /\ ocr[w].pc = "done" /\ ocr[w].result = "raised"
       /\ ocr[w].provs = <<"openai", "legacy">>

\* ------------------------------------------------------------------------
\* The retry wrapper alone: extract_text_with_ocr_retry around a scripted
\* extract_text_with_ocr (lines 391-450)
\* ------------------------------------------------------------------------
\* how a call of the wrapped function can end: a value, OCRExtractionError,
\* a network-class exception, any other exception
WrappedOutcomes == {"ok", "extraction_error", "transient", "other"}

InitRetry ==
  /\ InitPMVars /\ InitSSEVars /\ InitExIdle /\ InitCsvIdle /\ InitTqIdle /\ InitFnIdle /\ InitTrkIdle
  /\ cfg = [mistral_key |-> FALSE, openai_key |-> FALSE, limit |-> 1]
  /\ sem = 1
  /\ ocr = [w \in OcrThreads |-> IdleOcr]
  /\ script \in [1..MAX_RETRIES -> WrappedOutcomes]

\* lines 413-450, attempt 0: the wrapper is called and makes its first call
RetryBegin ==
  /\ ocr[1].pc = "idle"
  /\ ocr' = [ocr EXCEPT ![1] =
               OnAttemptOutcome([IdleOcr EXCEPT !.calls = 1], script[1])]
  /\ UNCHANGED <<cfg, sem, script, ocrOther>>

\* lines 415-448, a later attempt: time.sleep is over, the loop calls again
RetryAgain ==
  /\ ocr[1].pc = "again"
  /\ ocr' = [ocr EXCEPT ![1] =
               OnAttemptOutcome([ocr[1] EXCEPT !.calls = @ + 1],
                                script[ocr[1].calls + 1])]
  /\ UNCHANGED <<cfg, sem, script, ocrOther>>

NextRetry == RetryBegin \/ RetryAgain

SpecRetry == InitRetry /\ [][NextRetry]_vars

\* the first k scripted calls raise a transient error
TransientPrefix(k) == \A i \in 1..k : script[i] = "transient"

\* the exponential waits after failures 0 .. k-1
Backoff(k) == [i \in 1..k |-> Pow(RETRY_BACKOFF_BASE, i - 1)]

\* C15: when the wrapper has ended: after k < MAX_RETRIES transient failures
\* followed by a success it returned after k+1 calls and waits of
\* base^0 .. base^(k-1); after k transient failures followed by the
\* extraction error it raised after k+1 calls, with no further attempt; when
\* every call failed it raised after exactly MAX_RETRIES calls.
C15_RetryWrapper ==
  LET f == ocr[1]
  IN /\ f.pc = "done" =>
          /\ \A k \in 0..(MAX_RETRIES - 1) :
               (TransientPrefix(k) /\ script[k + 1] = "ok")
                 => f.result = "returned" /\ f.calls = k + 1 /\ f.waits = Backoff(k)
          /\ \A k \in 0..(MAX_RETRIES - 1) :
               (TransientPrefix(k) /\ script[k + 1] = "extraction_error")
                 => f.result = "raised" /\ f.calls = k + 1 /\ f.waits = Backoff(k)
          /\ (\A i \in 1..MAX_RETRIES : script[i] \in {"transient", "other"})
               => /\ f.result = "raised" /\ f.calls = MAX_RETRIES
                  /\ f.waits = Backoff(MAX_RETRIES - 1)
     /\ f.calls <= MAX_RETRIES
     /\ f.pc = "again" => f.calls < MAX_RETRIES /\ script[f.calls] \notin {"ok", "extraction_error"}

\* C15 witness: two transient failures, then a success on the third call,
\* returned after waits of 1 and 2 seconds.
C15_Witness ==
  /\ script = <<"transient", "transient", "ok">>
  /\ ocr[1].pc = "done" /\ ocr[1].result = "returned"
  /\ ocr[1].calls = 3 /\ ocr[1].waits = <<1, 2>>

\* ------------------------------------------------------------------------
\* Queued stage tasks (app/tasks/extraction.py, chunking.py, embeddings.py,
\* vectordb.py) run by workers under the settings of app/celery_app.py
\* ------------------------------------------------------------------------
\* workers lost while the task is followed
MaxCrashes == 1
\* error_message[:1000]
ERROR_MESSAGE_MAX == 1000

tqOther == <<pmVars, sseVars, exVars, csvVars, ocrVars, fnVars, trkVars>>

TaskKinds == {"extraction", "chunking", "dense", "sparse", "upload"}

\* len(str(e)) of the exception the stage logic raises
MsgLens == {0, 1000, 1001}



\* Faulty variant: messages are acknowledged when a worker receives them.
task_acks_late_off == FALSE

\* celery_app.conf: task_acks_late=True
task_acks_late == TRUE

\* celery_app.conf: task_reject_on_worker_lost=True
task_reject_on_worker_lost == TRUE

\* retry_kwargs['max_retries'] of ExtractionTask, ChunkingTask, EmbeddingTask,
\* VectorDBTask
MaxRetries(kind) == IF kind \in {"dense", "sparse"} THEN 5 ELSE 3

\* the status each task sets before its stage logic
InProgress(kind) ==
  CASE kind = "extraction" -> "EXTRACTING"
    [] kind = "chunking" -> "CHUNKING"
    [] kind \in {"dense", "sparse"} -> "EMBEDDING"
    [] kind = "upload" -> "UPLOADING"

\* the status after the success path of each task: dense_embedding_task
\* makes no status update there
StatusOnSuccess(kind, cur) ==
  CASE kind = "extraction" -> "EXTRACTED"
    [] kind = "chunking" -> "CHUNKED"
    [] kind = "dense" -> cur
    [] kind = "sparse" -> "EMBEDDED"
    [] kind = "upload" -> "COMPLETED"

\* the parameters of load_zotero_to_dataframe_incremental
CoreParameters == {"json_path", "pdf_base_dir", "output_csv"}

\* the keywords process_dataframe_task calls it with
CallKeywords == {"json_path", "base_dir", "output_csv", "progress_callback"}

\* Can the stage logic return? process_dataframe_task calls
\* load_zotero_to_dataframe_incremental(json_path=, base_dir=, output_csv=,
\* progress_callback=), whose parameters are (json_path, pdf_base_dir,
\* output_csv): the call raises TypeError on every execution. The stage
\* functions of the other tasks take the keywords they are called with.
CanReturn(kind) == kind = "extraction" => CallKeywords \subseteq CoreParameters

\* error_message[:1000]
Truncate(len) == IF len > ERROR_MESSAGE_MAX THEN ERROR_MESSAGE_MAX ELSE len

\* one task of some kind has been submitted with .delay()
InitTask ==
  /\ InitPMVars /\ InitSSEVars /\ InitExIdle /\ InitCsvIdle /\ InitOcrIdle /\ InitFnIdle /\ InitTrkIdle
  /\ tk \in [kind : TaskKinds, state : {"PENDING"}, retries : {0},
             execs : {0}, completed : {0}, acked : {0}]
  /\ broker = [ready |-> 1, unacked |-> {}]
  /\ wrk = [w \in TaskWorkers |-> IdleTaskWorker]
  /\ sess = [status |-> "created", errlen |-> 0]
  /\ ncrash = 0

\* a worker reserves the message (worker_prefetch_multiplier=1: one at a
\* time); without late acknowledgment it is acknowledged right away
Deliver(w) ==
  /\ wrk[w].pc = "idle"
  /\ broker.ready > 0
  /\ broker' = [ready |-> broker.ready - 1,
                unacked |-> IF task_acks_late THEN broker.unacked \cup {w}
                            ELSE broker.unacked]
  /\ tk' = [tk EXCEPT !.acked = IF task_acks_late THEN @ ELSE @ + 1]
  /\ wrk' = [wrk EXCEPT ![w].pc = "received"]
  /\ UNCHANGED <<sess, ncrash, tqOther>>

\* head of the task body: _update_session_status(session_id, <in progress>)
\* and self.update_state(state='PROGRESS')
BodyStart(w) ==
  /\ wrk[w].pc = "received"
  /\ sess' = [sess EXCEPT !.status = InProgress(tk.kind)]
  /\ tk' = [tk EXCEPT !.state = "PROGRESS", !.execs = @ + 1]
  /\ wrk' = [wrk EXCEPT ![w].pc = "logic"]
  /\ UNCHANGED <<broker, ncrash, tqOther>>

\* the stage logic returns; the success path runs up to the return statement
LogicReturns(w) ==
  /\ wrk[w].pc = "logic"
  /\ CanReturn(tk.kind)
  /\ sess' = [sess EXCEPT !.status = StatusOnSuccess(tk.kind, @)]
  /\ tk' = [tk EXCEPT !.completed = @ + 1]
  /\ wrk' = [wrk EXCEPT ![w].pc = "returned"]
  /\ UNCHANGED <<broker, ncrash, tqOther>>

\* the stage logic raises: except Exception sets ERROR, stores the truncated
\* message if it is not empty, and re-raises
LogicRaises(w, len) ==
  /\ wrk[w].pc = "logic"
  /\ sess' = [status |-> "ERROR",
              errlen |-> IF len > 0 THEN Truncate(len) ELSE sess.errlen]
  /\ tk' = [tk EXCEPT !.completed = @ + 1]
  /\ wrk' = [wrk EXCEPT ![w] = [pc |-> "raised", msglen |-> len]]
  /\ UNCHANGED <<broker, ncrash, tqOther>>

\* the runtime stores the result and acknowledges the message
OnSuccess(w) ==
  /\ wrk[w].pc = "returned"
  /\ tk' = [tk EXCEPT !.state = "SUCCESS",
                      !.acked = IF w \in broker.unacked THEN @ + 1 ELSE @]
  /\ broker' = [broker EXCEPT !.unacked = @ \ {w}]
  /\ wrk' = [wrk EXCEPT ![w] = IdleTaskWorker]
  /\ UNCHANGED <<sess, ncrash, tqOther>>

\* autoretry_for = (Exception,): the runtime publishes the task again while
\* request.retries < max_retries, else it stores FAILURE; either way the
\* message is acknowledged
OnFailure(w) ==
  /\ wrk[w].pc = "raised"
  /\ IF tk.retries < MaxRetries(tk.kind)
     THEN /\ tk' = [tk EXCEPT !.state = "RETRY", !.retries = @ + 1,
                              !.acked = IF w \in broker.unacked THEN @ + 1 ELSE @]
          /\ broker' = [ready |-> broker.ready + 1, unacked |-> broker.unacked \ {w}]
     ELSE /\ tk' = [tk EXCEPT !.state = "FAILURE",
                              !.acked = IF w \in broker.unacked THEN @ + 1 ELSE @]
          /\ broker' = [broker EXCEPT !.unacked = @ \ {w}]
  /\ wrk' = [wrk EXCEPT ![w] = IdleTaskWorker]
  /\ UNCHANGED <<sess, ncrash, tqOther>>

\* the worker process executing the task is lost; an unacknowledged message
\* is rejected and requeued (task_reject_on_worker_lost) or, without that
\* setting, acknowledged with the task marked failed; an acknowledged one
\* is gone. The worker comes back idle.
WorkerLost(w) ==
  /\ wrk[w].pc # "idle"
  /\ ncrash < MaxCrashes
  /\ ncrash' = ncrash + 1
  /\ wrk' = [wrk EXCEPT ![w] = IdleTaskWorker]
  /\ IF w \in broker.unacked
     THEN IF task_reject_on_worker_lost
          THEN /\ broker' = [ready |-> broker.ready + 1, unacked |-> broker.unacked \ {w}]
               /\ tk' = tk
          ELSE /\ broker' = [broker EXCEPT !.unacked = @ \ {w}]
               /\ tk' = [tk EXCEPT !.state = "FAILURE", !.acked = @ + 1]
     ELSE UNCHANGED <<broker, tk>>
  /\ UNCHANGED <<sess, tqOther>>

NextTask ==
  \/ \E w \in TaskWorkers : Deliver(w)
  \/ \E w \in TaskWorkers : BodyStart(w)
  \/ \E w \in TaskWorkers : LogicReturns(w)
  \/ \E w \in TaskWorkers, len \in MsgLens : LogicRaises(w, len)
  \/ \E w \in TaskWorkers : OnSuccess(w)
  \/ \E w \in TaskWorkers : OnFailure(w)
  \/ \E w \in TaskWorkers : WorkerLost(w)

SpecTask == InitTask /\ [][NextTask]_vars

\* Workers that are up keep taking messages and running what they took; no
\* fairness is asked of WorkerLost.
SpecTaskFair ==
  /\ SpecTask
  /\ WF_vars(\E w \in TaskWorkers : Deliver(w))
  /\ WF_vars(\E w \in TaskWorkers : BodyStart(w))
  /\ WF_vars(\E w \in TaskWorkers : LogicReturns(w) \/ \E len \in MsgLens : LogicRaises(w, len))
  /\ WF_vars(\E w \in TaskWorkers : OnSuccess(w))
  /\ WF_vars(\E w \in TaskWorkers : OnFailure(w))

\* C25: the queued extraction task runs the extraction core function on its
\* source: whenever an execution of the task has reached the call, the call
\* can return, so that the task can end in SUCCESS with the files the
\* function wrote.
C25_QueuedExtractionRunsCore ==
  \A w \in TaskWorkers :
    (tk.kind = "extraction" /\ wrk[w].pc = "logic") => ENABLED LogicReturns(w)

TypeOKTask ==
  /\ tk.state \in {"PENDING", "PROGRESS", "RETRY", "SUCCESS", "FAILURE"}
  /\ broker.ready \in 0..1
  /\ ncrash \in 0..MaxCrashes

\* the done value of each task's stage in SessionStatus
DoneStatus(kind) ==
  CASE kind = "extraction" -> "EXTRACTED"
    [] kind = "chunking" -> "CHUNKED"
    [] kind \in {"dense", "sparse"} -> "EMBEDDED"
    [] kind = "upload" -> "COMPLETED"

InProgressValues == {"EXTRACTING", "CHUNKING", "EMBEDDING", "UPLOADING"}

\* while the stage logic runs the status is the stage's in-progress value;
\* when the body has raised it is ERROR with a message of at most 1000
\* characters, the raised one cut to that length
StartAndErrorStatus(w) ==
  /\ wrk[w].pc = "logic" => sess.status = InProgress(tk.kind)
  /\ wrk[w].pc = "raised" =>
       /\ sess.status = "ERROR"
       /\ sess.errlen <= 1000
       /\ wrk[w].msglen > 0 =>
            sess.errlen = IF wrk[w].msglen > 1000 THEN 1000 ELSE wrk[w].msglen

\* C17: for each of the five tasks the status is the in-progress
\* value while the stage logic runs, the stage's done value (and no
\* in-progress value) when the body has returned, and ERROR with the message
\* cut to 1000 characters when the body has raised.
C17_StatusTransitions ==
  \A w \in TaskWorkers :
    /\ StartAndErrorStatus(w)
    /\ wrk[w].pc = "returned" =>
         sess.status = DoneStatus(tk.kind) /\ sess.status \notin InProgressValues

\* the retry cap of each task class
RetryCap(kind) == IF kind \in {"dense", "sparse"} THEN 5 ELSE 3

\* the retry cap is respected and a failed task has used it up, with the
\* session in ERROR
RetriesBounded ==
  /\ tk.retries <= RetryCap(tk.kind)
  /\ tk.execs <= RetryCap(tk.kind) + 1 + ncrash
  /\ tk.state = "FAILURE" => tk.retries = RetryCap(tk.kind) /\ sess.status = "ERROR"

\* C18: a task is re-executed at most 3 times (5 for the embedding
\* tasks) and then ends in FAILURE with status ERROR; a task that ends in
\* SUCCESS leaves the stage's done status.
C18_RetryCap ==
  /\ RetriesBounded
  /\ tk.state = "SUCCESS" => sess.status = DoneStatus(tk.kind)

\* the task's message is with the broker or a worker, or the task has ended
NotLost ==
  \/ tk.state \in {"SUCCESS", "FAILURE"}
  \/ broker.ready > 0
  \/ broker.unacked # {}

\* C19: a message is acknowledged only after the body of its execution has
\* finished; the task is never lost, also not when a worker is lost in the
\* middle of it; and with workers that keep working its body is eventually
\* executed to its end.
C19_AtLeastOnce ==
  /\ [](tk.acked <= tk.completed /\ NotLost)
  /\ <>(tk.completed >= 1)

\* C19 witness: a worker was lost in the middle of the task, the message was
\* delivered again and the second execution succeeded without any retry.
C19_Witness ==
  /\ ncrash >= 1 /\ tk.state = "SUCCESS"
  /\ tk.retries = 0 /\ tk.execs = 2 /\ tk.acked = 1

\* ------------------------------------------------------------------------
\* Exit status of the extraction script (checked under SpecEx)
\* ------------------------------------------------------------------------
\* __main__, incremental branch: the result of the load is not inspected.
\* The script ends normally, except that the summary's json.load of the
\* checkpoint file raises when the output exists and that file is truncated.
ExitStatus ==
  IF Len(journal) > 0 /\ ckfile.state = "truncated" THEN 1 ELSE 0

\* C20: a run whose source description could not be loaded processes no item
\* and its stream ends with the terminal event error, never complete.
C20_LoadFailureSurfaced ==
  (run.pc = "done" /\ ~run.loaded)
    => /\ Len(journal) = run.journal0
       /\ TerminalEvent(ExitStatus).type = "error"

\* C33: the key set of the persisted checkpoint only grows, within a run
\* and from one run to the next on the same output: no step leaves the
\* checkpoint file with fewer keys than it held before.
C33_CheckpointOnlyGrows ==
  [][PersistedKeys(ckfile) \subseteq PersistedKeys(ckfile')]_vars

\* the records this run has appended to the journal
Appended_by_run == SubSeq(journal, run.journal0 + 1, Len(journal))

\* C39: the empty identifier is never in the checkpoint, neither in memory
\* nor in the file; an item without identifier is selected by every run that
\* loads the source, and a run that came to its end has appended one record
\* for each of that item's extracted attachments, whatever earlier runs
\* appended.
C39_KeylessItemAlwaysReprocessed ==
  /\ NoKey \notin PersistedKeys(ckfile) \cup run.processed_keys
  /\ \A i \in 1..Len(Items) :
       Items[i].key = NoKey =>
         /\ (run.loaded /\ Len(out) = 1 /\ \A w \in WorkerIds : wk[w].pc = "idle") =>
              \E k \in 1..Len(run.todo) : run.todo[k] = i
         /\ (run.loaded /\ run.pc = "done") =>
              \A a \in 1..Len(Items[i].atts) :
                Items[i].atts[a] = "ok" => Count(Appended_by_run, Record(NoKey, i, a)) = 1

\* C39 witness: the second run over a source with an item without
\* identifier has ended; the journal holds the record of that item's
\* attachment twice.
C39_Witness ==
  /\ nrun = 2 /\ run.loaded /\ run.pc = "done"
  /\ \E i \in 1..Len(Items) :
       /\ Items[i].key = NoKey
       /\ Len(Items[i].atts) >= 1 /\ Items[i].atts[1] = "ok"
       /\ Count(journal, Record(NoKey, i, 1)) = 2

C30_OneInitMarkerFirst ==
  /\ run.loaded =>
       /\ out # <<>>
       /\ out[1] = InitMarker(Len(src.items))
       /\ \A k \in 2..Len(out) : out[k].type = "row"
  /\ ~run.loaded => out = <<>>

\* C30 witness: a resumed run, with items already in the checkpoint, has
\* printed the init marker and a row marker.
C30_Witness ==
  /\ run.loaded
  /\ run.already_done > 0
  /\ Len(out) >= 2
  /\ out[1].type = "init" /\ out[1].total = Len(src.items)
  /\ Len(run.todo) < Len(src.items)

\* ------------------------------------------------------------------------
\* create_combined_parser (app/utils/sse_helpers.py) and its use by
\* read_stream
\* ------------------------------------------------------------------------
fnOther == <<pmVars, sseVars, exVars, csvVars, ocrVars, tqVars, trkVars>>

\* what one parser of the chain returns for the line at hand: None, an empty
\* dict, or an event
ParserResults == {"None", "empty", "ev1", "ev2"}

\* Faulty variant: anything but None counts as a match.
Truthy_not_none(result) == result # "None"

\* lines 364 and 86: if result: / if event:
Truthy(result) == result \notin {"None", "empty"}

\* lines 361-366: the parsers from the k-th on are applied in turn; the
\* result, and how many parsers of the chain were called
RECURSIVE combined(_, _)
combined(results, k) ==
  IF k > Len(results) THEN [result |-> "None", called |-> k - 1]
  ELSE IF Truthy(results[k]) THEN [result |-> results[k], called |-> k]
  ELSE combined(results, k + 1)

InitCombined ==
  /\ InitPMVars /\ InitSSEVars /\ InitExIdle
  /\ InitCsvIdle /\ InitOcrIdle /\ InitTqIdle /\ InitTrkIdle
  /\ arg \in {[fn |-> "combined", results |-> r] :
                r \in UNION {[1..n -> ParserResults] : n \in 0..MaxParsers}}
  /\ ret = [fn |-> "none"]

\* line 85 of read_stream: event = progress_parser(decoded)
CallCombined ==
  /\ arg.fn = "combined"
  /\ ret.fn = "none"
  /\ LET r == combined(arg.results, 1)
     IN ret' = [fn |-> "combined", pc |-> "returned", result |-> r.result,
                called |-> r.called, yielded |-> <<>>, reading |-> TRUE]
  /\ UNCHANGED <<arg, fnOther>>

\* lines 86-87 and 65-67: yield the event if there is one, and read on
ReadOn ==
  /\ ret.fn = "combined"
  /\ ret.pc = "returned"
  /\ ret' = [ret EXCEPT !.pc = "readline",
                        !.yielded = IF Truthy(ret.result) THEN <<ret.result>> ELSE <<>>]
  /\ UNCHANGED <<arg, fnOther>>

NextCombined == CallCombined \/ ReadOn

SpecCombined == InitCombined /\ [][NextCombined]_vars

\* the positions of the parsers that return a non-empty result for the line
Matching == {k \in 1..Len(arg.results) : arg.results[k] \notin {"None", "empty"}}

\* C22: the combined parser returns the result of the first parser of the
\* chain that returns a non-empty result and calls no parser after it; when
\* none does it returns None after calling them all, and read_stream then
\* yields no event for the line and goes on reading.
C22_FirstMatchWins ==
  ret.fn = "combined" =>
    /\ ret.reading
    /\ IF Matching = {}
       THEN /\ ret.result = "None"
            /\ ret.called = Len(arg.results)
            /\ ret.yielded = <<>>
       ELSE LET first == CHOOSE k \in Matching : \A j \in Matching : k <= j
            IN /\ ret.result = arg.results[first]
               /\ ret.called = first
               /\ ret.pc = "readline" => ret.yielded = <<arg.results[first]>>

\* C22 witness: the first parser returned an empty dict, the second one an
\* event, the third one would have returned another event; the line's event
\* has been yielded.
C22_Witness ==
  /\ ret.fn = "combined" /\ ret.pc = "readline"
  /\ arg.results = <<"empty", "ev1", "ev2">>
  /\ ret.result = "ev1" /\ ret.called = 2

\* ------------------------------------------------------------------------
\* parse_multilevel_progress (app/utils/sse_helpers.py)
\*
\* A str is a sequence of one-character strings.
\* ------------------------------------------------------------------------
\* largest count written into a progress marker
MaxCount == 12

UpperLetters == <<"A", "B", "C", "D", "E", "F", "G", "H", "I", "J", "K", "L", "M", "N", "O", "P", "Q", "R", "S", "T", "U", "V", "W", "X", "Y", "Z">>
LowerLetters == <<"a", "b", "c", "d", "e", "f", "g", "h", "i", "j", "k", "l", "m", "n", "o", "p", "q", "r", "s", "t", "u", "v", "w", "x", "y", "z">>
Digits == <<"0", "1", "2", "3", "4", "5", "6", "7", "8", "9">>

IndexIn(ch, q) == CHOOSE k \in 1..Len(q) : q[k] = ch

\* str.lower and str.upper on one character
LowerChar(ch) == IF ch \in Range(UpperLetters) THEN LowerLetters[IndexIn(ch, UpperLetters)] ELSE ch
UpperChar(ch) == IF ch \in Range(LowerLetters) THEN UpperLetters[IndexIn(ch, LowerLetters)] ELSE ch

\* Faulty variant: the text is left as written.
lower_as_written(s) == s

\* str.lower
lower(s) == [k \in DOMAIN s |-> LowerChar(s[k])]

\* str.capitalize
capitalize(s) == [k \in DOMAIN s |-> IF k = 1 THEN UpperChar(s[k]) ELSE LowerChar(s[k])]

\* str.strip
RECURSIVE lstrip(_)
lstrip(s) == IF s # <<>> /\ Head(s) = " " THEN lstrip(Tail(s)) ELSE s
RECURSIVE rstrip(_)
rstrip(s) == IF s # <<>> /\ s[Len(s)] = " " THEN rstrip(SubSeq(s, 1, Len(s) - 1)) ELSE s
strip(s) == rstrip(lstrip(s))

\* str.startswith
startswith(s, prefix) == Len(s) >= Len(prefix) /\ SubSeq(s, 1, Len(prefix)) = prefix

\* str.split(sep, maxsplit)
RECURSIVE split(_, _, _)
split(s, sep, maxsplit) ==
  IF maxsplit = 0 \/ sep \notin Range(s) THEN <<s>>
  ELSE LET k == CHOOSE j \in 1..Len(s) : s[j] = sep /\ \A h \in 1..(j - 1) : s[h] # sep
       IN <<SubSeq(s, 1, k - 1)>> \o split(SubSeq(s, k + 1, Len(s)), sep, maxsplit - 1)

\* str(n) of an int
RECURSIVE DigitsOf(_)
DigitsOf(n) == IF n < 10 THEN <<Digits[n + 1]>> ELSE DigitsOf(n \div 10) \o <<Digits[(n % 10) + 1]>>
str(n) == IF n < 0 THEN <<"-">> \o DigitsOf(0 - n) ELSE DigitsOf(n)

\* the value of a run of digits with underscores between them
RECURSIVE DigitsValue(_, _)
DigitsValue(body, acc) ==
  IF body = <<>> THEN acc
  ELSE IF Head(body) = "_" THEN DigitsValue(Tail(body), acc)
  ELSE DigitsValue(Tail(body), 10 * acc + IndexIn(Head(body), Digits) - 1)

\* int(s) of a str: blanks around, an optional sign, digits with single
\* underscores between them; anything else is a ValueError
int(s) ==
  LET t == strip(s)
      signed == t # <<>> /\ Head(t) \in {"+", "-"}
      body == IF signed THEN Tail(t) ELSE t
      valid == /\ body # <<>>
               /\ \A k \in DOMAIN body : body[k] \in Range(Digits) \cup {"_"}
               /\ body[1] # "_" /\ body[Len(body)] # "_"
               /\ \A k \in 1..(Len(body) - 1) : ~(body[k] = "_" /\ body[k + 1] = "_")
  IN IF ~valid THEN [ok |-> FALSE, exc |-> "ValueError"]
     ELSE [ok |-> TRUE,
           val |-> IF signed /\ Head(t) = "-" THEN 0 - DigitsValue(body, 0) ELSE DigitsValue(body, 0)]

\* round(num / den * 100) for den > 0: the nearest integer; when the quotient
\* lies halfway between two integers the float product may come out on
\* either side of the half, so either neighbour is possible (tie is 0 or 1)
round_percent(num, den, tie) ==
  LET q == (100 * num) \div den
      r == (100 * num) % den
  IN IF 2 * r < den THEN q ELSE IF 2 * r > den THEN q + 1 ELSE q + tie

NoEvent == [type |-> "None"]
Raise(exc) == [type |-> "raise", exc |-> exc]

\* line 346: except (ValueError, IndexError)
Caught == {"ValueError", "IndexError"}

S_PROGRESS == <<"P", "R", "O", "G", "R", "E", "S", "S", "|">>
S_init == <<"i", "n", "i", "t">>
S_Found == <<"F", "o", "u", "n", "d", " ">>
S_items == <<" ", "i", "t", "e", "m", "s">>

\* lines 307-345: the body of the try block
parse_try(line, tie) ==
  LET parts == split(line, "|", 3)
  IN IF Len(parts) < 3 THEN NoEvent
     ELSE LET level == lower(strip(parts[2]))
          IN IF level = S_init
             THEN LET total == int(parts[3])
                  IN IF ~total.ok THEN Raise(total.exc)
                     ELSE [type |-> "init", total |-> total.val,
                           message |-> IF Len(parts) > 3 THEN strip(parts[4])
                                       ELSE S_Found \o str(total.val) \o S_items]
             ELSE LET counts == strip(parts[3])
                  IN IF "/" \notin Range(counts) THEN NoEvent
                     ELSE LET cs == split(counts, "/", 1)
                              current == int(cs[1])
                              total == int(cs[2])
                          IN IF ~current.ok THEN Raise(current.exc)
                             ELSE IF ~total.ok THEN Raise(total.exc)
                             ELSE [type |-> "progress", level |-> level,
                                   current |-> current.val, total |-> total.val,
                                   percent |-> IF total.val > 0
                                               THEN round_percent(current.val, total.val, tie)
                                               ELSE 0,
                                   message |-> IF Len(parts) > 3 THEN strip(parts[4])
                                               ELSE capitalize(level) \o <<" ">> \o str(current.val)
                                                      \o <<"/">> \o str(total.val)]

\* lines 303-348
parse_multilevel_progress(line, tie) ==
  IF ~startswith(line, S_PROGRESS) THEN NoEvent
  ELSE LET r == parse_try(line, tie)
       IN IF r.type = "raise" /\ r.exc \in Caught THEN NoEvent ELSE r

\* the inputs: a prefix and up to three fields after it. A level or a message
\* is given as the text written into the line together with that text
\* trimmed (and, for a level, lower-cased).
Prefixes == {S_PROGRESS, <<"p", "r", "o", "g", "r", "e", "s", "s", "|">>}
LevelInputs ==
  {[text |-> <<"r", "o", "w">>, norm |-> <<"r", "o", "w">>],
   [text |-> <<"R", "O", "W">>, norm |-> <<"r", "o", "w">>],
   [text |-> <<" ", "r", "o", "w">>, norm |-> <<"r", "o", "w">>],
   [text |-> <<"p", "a", "g", "e">>, norm |-> <<"p", "a", "g", "e">>],
   [text |-> <<"i", "n", "i", "t">>, norm |-> <<"i", "n", "i", "t">>],
   [text |-> <<"I", "n", "i", "t">>, norm |-> <<"i", "n", "i", "t">>],
   [text |-> <<>>, norm |-> <<>>]}
MessageInputs ==
  {[text |-> <<"d", "o", "c">>, norm |-> <<"d", "o", "c">>],
   [text |-> <<" ", "d", "o", "c", " ">>, norm |-> <<"d", "o", "c">>],
   [text |-> <<"a", "|", "b">>, norm |-> <<"a", "|", "b">>],
   [text |-> <<>>, norm |-> <<>>]}

\* the ways an integer is written
Spell(n, style) ==
  CASE style = "plain" -> str(n)
    [] style = "spaced" -> <<" ">> \o str(n) \o <<" ">>
    [] style = "plus" -> <<"+">> \o str(n)
    [] style = "zero" -> <<"0">> \o str(n)
    [] style = "under" -> <<Head(str(n)), "_">> \o Tail(str(n))

Counts == (0 - 1)..MaxCount
TwoDigit == 10..MaxCount
Styles == {"spaced", "plus", "zero", "under"}
RawCounts == {<<>>, <<"x">>, <<"a", "/", "2">>, <<"1", "/", "b">>, <<"1", "/", "2", "/", "3">>, <<"1", ".", "5", "/", "2">>, <<"1", "_", "_", "2", "/", "3">>}

\* the counts field: <c>/<t>, a single integer, or a text that is neither
CountsInputs ==
  {[kind |-> "ct", c |-> c, t |-> t, style |-> "plain"] : c \in Counts, t \in Counts}
  \cup {[kind |-> "ct", c |-> c, t |-> t, style |-> s] : c \in TwoDigit, t \in TwoDigit, s \in Styles}
  \cup {[kind |-> "t", t |-> t, style |-> "plain"] : t \in Counts}
  \cup {[kind |-> "t", t |-> t, style |-> s] : t \in TwoDigit, s \in Styles}
  \cup {[kind |-> "raw", text |-> x] : x \in RawCounts}

CountsText(cn) ==
  CASE cn.kind = "ct" -> Spell(cn.c, cn.style) \o <<"/">> \o Spell(cn.t, cn.style)
    [] cn.kind = "t" -> Spell(cn.t, cn.style)
    [] cn.kind = "raw" -> cn.text

\* the line written from a prefix and the first nfields fields
LineOf(prefix, nfields, level, counts, message) ==
  prefix \o level.text
    \o (IF nfields >= 2 THEN <<"|">> \o CountsText(counts) ELSE <<>>)
    \o (IF nfields >= 3 THEN <<"|">> \o message.text ELSE <<>>)

InitParse ==
  /\ InitPMVars /\ InitSSEVars /\ InitExIdle
  /\ InitCsvIdle /\ InitOcrIdle /\ InitTqIdle /\ InitTrkIdle
  /\ \E prefix \in Prefixes, nfields \in 1..3, level \in LevelInputs,
        counts \in CountsInputs, message \in MessageInputs :
       arg = [fn |-> "parse", prefix |-> prefix, nfields |-> nfields, level |-> level,
              counts |-> counts, message |-> message,
              line |-> LineOf(prefix, nfields, level, counts, message)]
  /\ ret = [fn |-> "none"]

\* one call of the parser on the line
CallParse ==
  /\ arg.fn = "parse"
  /\ ret.fn = "none"
  /\ \E tie \in {0, 1} :
       ret' = [fn |-> "parse", result |-> parse_multilevel_progress(arg.line, tie)]
  /\ UNCHANGED <<arg, fnOther>>

NextParse == CallParse

SpecParse == InitParse /\ [][NextParse]_vars

\* p is an integer nearest to c / t * 100
Nearest(p, c, t) ==
  LET d == p * t - 100 * c
  IN 2 * (IF d < 0 THEN 0 - d ELSE d) <= t

Parsed == ret.fn = "parse" /\ arg.prefix = S_PROGRESS

\* C23 (as stated): a line PROGRESS|<level>|<c>/<t>|<msg> yields a progress
\* event with the level and the message as written, current c, total t and
\* the percentage; a line PROGRESS|init|<t>|<msg> yields an init event with
\* total t and the message as written; a line with fewer than three fields,
\* non-integer counts or no '/' yields no event and raises nothing.
C23_AsWritten ==
  Parsed =>
    LET r == ret.result
        cn == arg.counts
    IN /\ r.type # "raise"
       /\ (arg.nfields = 3 /\ cn.kind = "ct" /\ cn.style = "plain") =>
            /\ r.type = "progress"
            /\ r.level = arg.level.text
            /\ r.current = cn.c /\ r.total = cn.t
            /\ r.message = arg.message.text
            /\ cn.t > 0 => Nearest(r.percent, cn.c, cn.t)
            /\ cn.t = 0 => r.percent = 0
       /\ (arg.nfields = 3 /\ arg.level.text = S_init /\ cn.kind = "t" /\ cn.style = "plain") =>
            /\ r.type = "init"
            /\ r.total = cn.t
            /\ r.message = arg.message.text
       /\ (arg.nfields = 1 \/ cn.kind = "raw" \/ (cn.kind = "t" /\ arg.level.text # S_init)) =>
            r = NoEvent

\* C23 (amended): the level is taken trimmed and lower-cased and the message
\* trimmed. A line PROGRESS|<level>|<c>/<t>|<msg> whose level is not init
\* yields a progress event with that level, current c, total t, that
\* message, and as percent an integer nearest to c/t*100 when t > 0 and 0
\* otherwise; a line PROGRESS|<level>|<t>|<msg> whose level is init yields an
\* init event with total t and that message; a line with fewer than three
\* fields, with counts that are not integers, or without '/' for a level
\* other than init, yields no event; nothing is raised.
C23_ParsedTrimmedLowered ==
  Parsed =>
    LET r == ret.result
        cn == arg.counts
        isInit == arg.level.norm = S_init
    IN /\ r.type # "raise"
       /\ (arg.nfields = 3 /\ cn.kind = "ct" /\ ~isInit) =>
            /\ r.type = "progress"
            /\ r.level = arg.level.norm
            /\ r.current = cn.c /\ r.total = cn.t
            /\ r.message = arg.message.norm
            /\ cn.t > 0 => Nearest(r.percent, cn.c, cn.t)
            /\ cn.t <= 0 => r.percent = 0
       /\ (arg.nfields = 3 /\ cn.kind = "t" /\ isInit) =>
            /\ r.type = "init"
            /\ r.total = cn.t
            /\ r.message = arg.message.norm
       /\ (\/ arg.nfields = 1
           \/ cn.kind = "raw"
           \/ (cn.kind = "t" /\ ~isInit)
           \/ (cn.kind = "ct" /\ isInit)) =>
            r = NoEvent

\* C23 witness: PROGRESS|ROW|1/8| doc  has been parsed into a progress
\* event of level row with message doc; 12.5 is halfway, percent is 12 or 13.
C23_Witness ==
  /\ Parsed
  /\ arg.nfields = 3
  /\ arg.level.text = <<"R", "O", "W">>
  /\ arg.counts = [kind |-> "ct", c |-> 1, t |-> 8, style |-> "plain"]
  /\ arg.message.text = <<" ", "d", "o", "c", " ">>
  /\ ret.result.type = "progress"
  /\ ret.result.level = <<"r", "o", "w">>
  /\ ret.result.message = <<"d", "o", "c">>
  /\ ret.result.percent \in {12, 13}

\* ------------------------------------------------------------------------
\* _find_pdf_fuzzy, levenshtein and the name normalisations
\* (scripts/rad_dataframe.py)
\*
\* Characters of file names: the letters a, b and A; "a'" and "A'", the
\* letters a and A with an acute accent as one composed character; "'", the
\* combining acute accent; ".", and "ss", the sharp s (a letter outside
\* ASCII that has no decomposition).
\* ------------------------------------------------------------------------
\* longest file name considered
MaxNameLen == 3
\* most files in the directory
MaxCandidates == 2

NameChars == {"a", "b", "A", "a'", "'", ".", "ss"}

RECURSIVE Flatten(_)
Flatten(ss) == IF ss = <<>> THEN <<>> ELSE Head(ss) \o Flatten(Tail(ss))

\* unicodedata.normalize('NFD', s), and 'NFKD', which is the same on these
\* characters
NFD(s) ==
  Flatten([k \in DOMAIN s |-> CASE s[k] = "a'" -> <<"a", "'">>
                                [] s[k] = "A'" -> <<"A", "'">>
                                [] OTHER -> <<s[k]>>])

\* canonical composition of a decomposed string
RECURSIVE Compose(_)
Compose(s) ==
  IF Len(s) < 2 THEN s
  ELSE IF s[1] = "a" /\ s[2] = "'" THEN <<"a'">> \o Compose(SubSeq(s, 3, Len(s)))
  ELSE IF s[1] = "A" /\ s[2] = "'" THEN <<"A'">> \o Compose(SubSeq(s, 3, Len(s)))
  ELSE <<Head(s)>> \o Compose(Tail(s))

\* unicodedata.normalize('NFC', s)
NFC(s) == Compose(NFD(s))

\* str.lower on file names
name_lower(s) ==
  [k \in DOMAIN s |-> CASE s[k] = "A" -> "a" [] s[k] = "A'" -> "a'" [] OTHER -> s[k]]

\* lines 48-64: the characters of NFD(s) that are not combining marks
strip_accents(s) == SelectSeq(NFD(s), LAMBDA ch : ch # "'")

\* lines 67-84: NFKD, the ASCII characters only, lower-cased
ascii_flat(s) == name_lower(SelectSeq(NFD(s), LAMBDA ch : ch \in {"a", "b", "A", "."}))

\* lines 87-105: the alphanumeric characters of ascii_flat(s)
alphanum_only(s) == SelectSeq(ascii_flat(s), LAMBDA ch : ch # ".")

Min3(x, y, z) == IF x <= y /\ x <= z THEN x ELSE IF y <= z THEN y ELSE z

\* line 139: substitutions = previous_row[j] + (ca != cb)
substitutions(previous, ca, cb) == previous + (IF ca # cb THEN 1 ELSE 0)

\* lines 136-140: the inner loop, from the j-th character of b on
RECURSIVE LevRow(_, _, _, _, _)
LevRow(ca, b, previous_row, j, current_row) ==
  IF j > Len(b) THEN current_row
  ELSE LevRow(ca, b, previous_row, j + 1,
              Append(current_row,
                     Min3(previous_row[j + 1] + 1,
                          current_row[j] + 1,
                          substitutions(previous_row[j], ca, b[j]))))

\* lines 134-141: the outer loop, from the i-th character of a on
RECURSIVE LevRows(_, _, _, _)
LevRows(a, b, i, previous_row) ==
  IF i > Len(a) THEN previous_row
  ELSE LevRows(a, b, i + 1, LevRow(a[i], b, previous_row, 1, <<i>>))

\* lines 130-142
RECURSIVE levenshtein(_, _)
levenshtein(a, b) ==
  IF Len(a) < Len(b) THEN levenshtein(b, a)
  ELSE IF Len(b) = 0 THEN Len(a)
  ELSE LevRows(a, b, 1, [j \in 1..(Len(b) + 1) |-> j - 1])[Len(b) + 1]

\* lines 1158-1165 and 1168-1175: the six forms of a name
Forms(f) ==
  <<name_lower(NFC(f)), name_lower(NFD(f)),
    name_lower(strip_accents(NFC(f))), name_lower(strip_accents(NFD(f))),
    ascii_flat(f), alphanum_only(f)>>

\* Faulty variant: empty forms are not excluded.
fuzzy_match_any(t_alpha, f_alpha) == levenshtein(t_alpha, f_alpha) <= 2

\* lines 1181-1182
fuzzy_match(t_alpha, f_alpha) ==
  levenshtein(t_alpha, f_alpha) <= 2 /\ t_alpha # <<>> /\ f_alpha # <<>>

\* line 1184: the test made on candidate f
Accepts(target, f) ==
  \/ \E t \in Range(Forms(target)), ff \in Range(Forms(f)) : t = ff
  \/ fuzzy_match(alphanum_only(target), alphanum_only(f))

\* lines 1167-1189: the index of the first candidate accepted, 0 for None
RECURSIVE FindFrom(_, _, _)
FindFrom(target, candidates, k) ==
  IF k > Len(candidates) THEN 0
  ELSE IF Accepts(target, candidates[k]) THEN k
  ELSE FindFrom(target, candidates, k + 1)

_find_pdf_fuzzy(target, candidates) ==
  IF candidates = <<>> THEN 0 ELSE FindFrom(target, candidates, 1)

Strings(chars, n) == UNION {[1..k -> chars] : k \in 0..n}

\* the names the directory may hold
CandidateNames ==
  {<<"a", "b">>, <<"A", "b">>, <<"a", ".", "b">>, <<"a'", "b">>, <<"a", "'", "b">>,
   <<"ss", "a", "b">>, <<"b", "b", "b">>, <<".">>}

InitFuzzy ==
  /\ InitPMVars /\ InitSSEVars /\ InitExIdle
  /\ InitCsvIdle /\ InitOcrIdle /\ InitTqIdle /\ InitTrkIdle
  /\ \/ \E target \in Strings(NameChars, MaxNameLen) \ {<<>>},
           candidates \in Strings(CandidateNames, MaxCandidates) :
          arg = [fn |-> "_find_pdf_fuzzy", target |-> target, candidates |-> candidates]
     \/ \E a \in Strings({"a", "b"}, MaxNameLen), b \in Strings({"a", "b"}, MaxNameLen) :
          arg = [fn |-> "levenshtein", a |-> a, b |-> b]
  /\ ret = [fn |-> "none"]

CallFindPdfFuzzy ==
  /\ arg.fn = "_find_pdf_fuzzy"
  /\ ret.fn = "none"
  /\ ret' = [fn |-> "_find_pdf_fuzzy", found |-> _find_pdf_fuzzy(arg.target, arg.candidates)]
  /\ UNCHANGED <<arg, fnOther>>

CallLevenshtein ==
  /\ arg.fn = "levenshtein"
  /\ ret.fn = "none"
  /\ ret' = [fn |-> "levenshtein", distance |-> levenshtein(arg.a, arg.b)]
  /\ UNCHANGED <<arg, fnOther>>

NextFuzzy == CallFindPdfFuzzy \/ CallLevenshtein

SpecFuzzy == InitFuzzy /\ [][NextFuzzy]_vars

\* the strings one insertion, deletion or substitution away from s, over
\* the characters chars and no longer than n
OneEdit(s, chars, n) ==
  {SubSeq(s, 1, k - 1) \o SubSeq(s, k + 1, Len(s)) : k \in 1..Len(s)}
  \cup {[s EXCEPT ![k] = ch] : k \in 1..Len(s), ch \in chars}
  \cup (IF Len(s) < n
        THEN {SubSeq(s, 1, k) \o <<ch>> \o SubSeq(s, k + 1, Len(s)) : k \in 0..Len(s), ch \in chars}
        ELSE {})

\* the strings at most k edits away from a
RECURSIVE Ball(_, _, _, _)
Ball(a, k, chars, n) ==
  IF k = 0 THEN {a}
  ELSE LET inner == Ball(a, k - 1, chars, n)
       IN inner \cup UNION {OneEdit(s, chars, n) : s \in inner}

\* the least number of edits that turn a into b (never more than the longer
\* length; a shortest sequence of edits needs no longer string and no other
\* character)
EditDistance(a, b) ==
  LET n == IF Len(a) > Len(b) THEN Len(a) ELSE Len(b)
      chars == Range(a) \cup Range(b)
  IN CHOOSE k \in 0..n : /\ b \in Ball(a, k, chars, n)
                         /\ k > 0 => b \notin Ball(a, k - 1, chars, n)

\* the condition on a target and a candidate: one of the normalised forms is
\* the same for both, or their alphanumeric forms are not empty and at most
\* two edits apart
Matches(target, f) ==
  LET t_forms == Forms(target)
      f_forms == Forms(f)
      n == IF Len(t_forms[6]) > Len(f_forms[6]) THEN Len(t_forms[6]) ELSE Len(f_forms[6])
  IN \/ \E k \in 1..6 : t_forms[k] = f_forms[k]
     \/ /\ t_forms[6] # <<>> /\ f_forms[6] # <<>>
        /\ f_forms[6] \in Ball(t_forms[6], 2, Range(t_forms[6]) \cup Range(f_forms[6]), n)

\* C27: _find_pdf_fuzzy returns a candidate exactly when some candidate of
\* the directory matches the target (a normalised form in common, or
\* non-empty alphanumeric forms at most two edits apart), the one returned
\* matches and none before it does; levenshtein(a, b) is the least number of
\* single-character insertions, deletions and substitutions turning a into b.
C27_FuzzyAcceptance ==
  /\ ret.fn = "_find_pdf_fuzzy" =>
       LET matching == {k \in 1..Len(arg.candidates) : Matches(arg.target, arg.candidates[k])}
       IN IF matching = {} THEN ret.found = 0
          ELSE /\ ret.found \in matching
               /\ \A k \in matching : ret.found <= k
  /\ ret.fn = "levenshtein" => ret.distance = EditDistance(arg.a, arg.b)

\* C27 witness: the first file of the directory is three edits away from the
\* target and has no form in common with it, the second one is two edits
\* away and is the one returned.
C27_Witness ==
  /\ ret.fn = "_find_pdf_fuzzy"
  /\ arg.target = <<"A", "a'", "a">>
  /\ arg.candidates = <<<<"b", "b", "b">>, <<"a", ".", "b">>>>
  /\ ret.found = 2

\* ------------------------------------------------------------------------
\* One line of the extraction subprocess through read_stream
\* (app/utils/sse_helpers.py lines 70-87), for the row markers printed by
\* scripts/rad_dataframe.py
\* ------------------------------------------------------------------------
TITLE_MAX == 50

S_row == <<"P", "R", "O", "G", "R", "E", "S", "S", "|", "r", "o", "w", "|">>
S_error == <<"e", "r", "r", "o", "r">>
S_warning == <<"w", "a", "r", "n", "i", "n", "g">>

\* line 46: the default error_keywords
error_keywords == {S_error, <<"f", "a", "i", "l", "e", "d">>, <<"e", "x", "c", "e", "p", "t", "i", "o", "n">>, <<"t", "r", "a", "c", "e", "b", "a", "c", "k">>}

\* sub in s
contains(s, sub) == \E k \in 0..(Len(s) - Len(sub)) : SubSeq(s, k + 1, k + Len(sub)) = sub

\* rad_dataframe.py lines 1122-1123 (and 1068-1069): the row marker line
row_marker_line(current, total, title) ==
  S_row \o str(current) \o <<"/">> \o str(total) \o <<"|">>
    \o SubSeq(title, 1, IF Len(title) < TITLE_MAX THEN Len(title) ELSE TITLE_MAX)

\* lines 78-80: a keyword is in the line, and so is "error" without "warning"
looks_serious(decoded) ==
  /\ \E keyword \in error_keywords : contains(lower(decoded), keyword)
  /\ contains(lower(decoded), S_error)
  /\ ~contains(lower(decoded), S_warning)

\* lines 70-87: the event yielded for one line read from the pipe, with the
\* structured marker parser first in the chain
read_stream_line(line, tie) ==
  LET decoded == strip(line)
  IN IF decoded = <<>> THEN NoEvent
     ELSE IF looks_serious(decoded) THEN [type |-> "error", message |-> decoded]
     ELSE parse_multilevel_progress(decoded, tie)

\* titles of items
Titles ==
  {<<"d", "o", "c">>,
   <<"E", "r", "r", "o", "r", " ", "l", "o", "g">>,
   <<"t", "e", "r", "r", "o", "r", "s">>,
   <<"w", "a", "r", "n", "i", "n", "g", ":", " ", "e", "r", "r", "o", "r">>,
   <<"F", "a", "i", "l", "e", "d", " ", "r", "u", "n">>,
   <<"a", "|", "b">>,
   <<>>}

InitLine ==
  /\ InitPMVars /\ InitSSEVars /\ InitExIdle
  /\ InitCsvIdle /\ InitOcrIdle /\ InitTqIdle /\ InitTrkIdle
  /\ \E total \in 1..MaxCount, title \in Titles :
       \E current \in 1..total :
         arg = [fn |-> "read_stream", current |-> current, total |-> total, title |-> title,
                line |-> row_marker_line(current, total, title)]
  /\ ret = [fn |-> "none"]

\* the reader takes the line from the pipe and yields what it makes of it
ReadLine ==
  /\ arg.fn = "read_stream"
  /\ ret.fn = "none"
  /\ \E tie \in {0, 1} :
       ret' = [fn |-> "read_stream", event |-> read_stream_line(arg.line, tie)]
  /\ UNCHANGED <<arg, fnOther>>

NextLine == ReadLine

SpecLine == InitLine /\ [][NextLine]_vars

\* C31: whatever the title of the item, the row marker printed for it comes
\* out of the reader as a progress event of level row with the item's
\* current and total.
C31_RowMarkerAlwaysParsed ==
  ret.fn = "read_stream" =>
    /\ ret.event.type = "progress"
    /\ ret.event.level = <<"r", "o", "w">>
    /\ ret.event.current = arg.current
    /\ ret.event.total = arg.total

\* ------------------------------------------------------------------------
\* One attachment through _process_single_zotero_item: the retry wrapper
\* and the handlers around it (rad_dataframe.py lines 896-947)
\* ------------------------------------------------------------------------
\* Faulty variant: when the attempts are used up the last exception of the
\* wrapped call is raised again.
exhausted_raises_last(last_error) == last_error

\* line 450: what extract_text_with_ocr_retry raises when every attempt failed
exhausted_raises(last_error) == "OCRExtractionError"

\* lines 422-424 and 450: the exception that leaves the wrapper whose frame f
\* ended with "raised"; outcome is what the last call of the wrapped function did
wrapper_raises(outcome) ==
  IF outcome = "extraction_error" THEN "OCRExtractionError"
  ELSE exhausted_raises(outcome)

\* lines 896-924 and 932-947: what _process_single_zotero_item does with the
\* end of the wrapper: a record, an OCR_FAILED entry and the loop over the
\* attachments goes on, or, for any other exception, a PROCESSING_ERROR
\* entry and the item is given up. Nothing is raised to the caller.
attachment_outcome(f, outcome) ==
  IF f.result = "returned"
  THEN [fn |-> "attachment", entry |-> "record", goes_on |-> TRUE, escapes |-> FALSE]
  ELSE IF wrapper_raises(outcome) = "OCRExtractionError"
  THEN [fn |-> "attachment", entry |-> "OCR_FAILED", goes_on |-> TRUE, escapes |-> FALSE]
  ELSE [fn |-> "attachment", entry |-> "PROCESSING_ERROR", goes_on |-> FALSE,
        escapes |-> FALSE]

\* lines 898-924: the wrapper has ended, the handler around it acts
RecordOutcome ==
  /\ ocr[1].pc = "done"
  /\ ret.fn = "none"
  /\ ret' = attachment_outcome(ocr[1], script[ocr[1].calls])
  /\ UNCHANGED <<arg, fnOther>>

NextItem == RetryBegin \/ RetryAgain \/ RecordOutcome

SpecItem == InitRetry /\ [][NextItem]_vars

trkOther == <<clock, calls, sseVars, exVars, csvVars, ocrVars, tqVars, fnVars>>

\* pids handed out to the tracked calls so far
UsedPids == {trk[c].pid : c \in TrackedCalls} \ {0}

\* the kernel hands out pids in increasing order and does not hand one out
\* again within the life of the calls considered
FreshPid == CHOOSE p \in Pids \ UsedPids : \A q \in Pids \ UsedPids : p <= q

\* Faulty variant: the pid is unregistered by an `except Exception` handler,
\* which a cancellation does not enter.
on_exit_except_only(procs, s, pid, result) ==
  IF result = "cancelled" THEN procs ELSE unregister(procs, s, pid)

\* lines 68-71: finally: process_manager.unregister(session_folder, process.pid)
on_exit(procs, s, pid, result) == unregister(procs, s, pid)

\* the call leaves the try block with this result and runs the finally clause
Leave(c, result) ==
  /\ trk' = [trk EXCEPT ![c].pc = "done", ![c].result = result]
  /\ processes' = on_exit(processes, trk[c].session, trk[c].pid, result)

\* lines 39-47: spawn and register; an exception of create_subprocess_exec
\* leaves the function before there is a pid to register.
TrkStart(c) ==
  /\ trk[c].pc = "idle"
  /\ \/ /\ trk' = [trk EXCEPT ![c].pc = "done", ![c].result = "spawn_error"]
        /\ UNCHANGED <<processes, alive>>
     \/ /\ Pids \ UsedPids # {}
        /\ alive' = alive \cup {FreshPid}
        /\ processes' = register(processes, trk[c].session, FreshPid)
        /\ trk' = [trk EXCEPT ![c].pc = "waiting", ![c].pid = FreshPid]
  /\ UNCHANGED trkOther

\* lines 51-63: communicate() is over, the process has ended with whatever
\* return code: the CompletedProcess is returned
TrkReturn(c) ==
  /\ trk[c].pc = "waiting"
  /\ trk[c].pid \notin alive
  /\ Leave(c, "returned")
  /\ UNCHANGED <<alive, trkOther>>

\* lines 64-65: asyncio.TimeoutError; process.kill() ends a live process. On
\* a process that has just ended it does nothing or raises
\* ProcessLookupError, which leaves the function in place of the timeout.
TrkTimeout(c) ==
  /\ trk[c].pc = "waiting"
  /\ \/ /\ alive' = alive \ {trk[c].pid}
        /\ trk' = [trk EXCEPT ![c].pc = "reaping"]
        /\ UNCHANGED processes
     \/ /\ trk[c].pid \notin alive
        /\ Leave(c, "error")
        /\ UNCHANGED alive
  /\ UNCHANGED trkOther

\* lines 66-67: the killed process is reaped, TimeoutExpired is raised
TrkReaped(c) ==
  /\ trk[c].pc = "reaping"
  /\ Leave(c, "timeout")
  /\ UNCHANGED <<alive, trkOther>>

\* any other exception inside the try block; the process is left as it is
TrkFail(c) ==
  /\ trk[c].pc = "waiting"
  /\ Leave(c, "error")
  /\ UNCHANGED <<alive, trkOther>>

\* the awaiting request is cancelled at one of the two awaits: CancelledError
\* leaves the function, the process is left as it is
TrkCancel(c) ==
  /\ trk[c].pc \in {"waiting", "reaping"}
  /\ Leave(c, "cancelled")
  /\ UNCHANGED <<alive, trkOther>>

\* the subprocess of a tracked call ends, on its own or on SIGTERM
TrkProcExit(c) ==
  /\ trk[c].pc = "waiting"
  /\ Exit(trk[c].pid)

NextTracked ==
  \/ \E c \in TrackedCalls : TrkStart(c)
  \/ \E c \in TrackedCalls : TrkProcExit(c)
  \/ \E c \in TrackedCalls : TrkReturn(c)
  \/ \E c \in TrackedCalls : TrkTimeout(c)
  \/ \E c \in TrackedCalls : TrkReaped(c)
  \/ \E c \in TrackedCalls : TrkFail(c)
  \/ \E c \in TrackedCalls : TrkCancel(c)
  \/ Tick
  \/ \E t \in StopThreads, d \in Timeouts : StopBegin(t, "sA", d)
  \/ \E t \in StopThreads : Phase1Step(t)
  \/ \E t \in StopThreads : Phase1End(t)
  \/ \E t \in StopThreads : PollSleep(t)
  \/ \E t \in StopThreads : PollScan(t)
  \/ \E t \in StopThreads : PollScanEnd(t)
  \/ \E t \in StopThreads : PollExit(t)
  \/ \E t \in StopThreads : Phase2Step(t)
  \/ \E t \in StopThreads : StopReturn(t)

SpecTracked == InitPM /\ [][NextTracked]_vars

\* C36: while a run_tracked_subprocess call awaits its subprocess and the
\* subprocess lives, its pid is registered under the call's session; once
\* the call has ended, by a return, a timeout, any other exception or a
\* cancellation, the pid is registered no more; the call ends with a timeout
\* only after the subprocess was force-killed or had ended.
C36_RegisteredWhileTracked ==
  \A c \in TrackedCalls :
    /\ (trk[c].pc = "waiting" /\ trk[c].pid \in alive)
         => trk[c].pid \in Registered(processes, trk[c].session)
    /\ (trk[c].pc = "done" /\ trk[c].pid # 0)
         => trk[c].pid \notin Registered(processes, trk[c].session)
    /\ (trk[c].pc = "done" /\ trk[c].result = "timeout") => trk[c].pid \notin alive
    /\ (trk[c].pc = "done" /\ trk[c].pid = 0) => trk[c].result = "spawn_error"

\* C36 witness: the request was cancelled while its subprocess was running;
\* the call has ended and the subprocess still lives.
C36_Witness ==
  \E c \in TrackedCalls :
    /\ trk[c].pc = "done" /\ trk[c].result = "cancelled"
    /\ trk[c].pid \in alive
    /\ trk[c].pid \notin Registered(processes, trk[c].session)

\* ------------------------------------------------------------------------
\* Two stop_session calls on one session, each in a thread of its own,
\* while the tracked subprocesses end and unregister themselves
\* ------------------------------------------------------------------------
NextStop2 ==
  \/ \E c \in TrackedCalls : TrkStart(c)
  \/ \E c \in TrackedCalls : TrkProcExit(c)
  \/ \E c \in TrackedCalls : TrkReturn(c)
  \/ \E t \in Threads : StopBegin(t, "sA", 0)
  \/ \E t \in Threads : Phase1Step(t)
  \/ \E t \in Threads : Phase1End(t)
  \/ \E t \in Threads : PollExit(t)
  \/ \E t \in Threads : Phase2Step(t)
  \/ \E t \in Threads : StopReturn(t)

SpecStop2 == InitPM /\ [][NextStop2]_vars

\* the pids a stop_session call reports as stopped
Stopped(c) == Range(c.terminated) \cup Range(c.killed) \cup Range(c.already_dead)

\* C35: unregister of a pid or session that the registry does not hold
\* leaves the registry as it is; whatever the interleaving of two
\* stop_session calls on one session and of the subprocesses' own unregister,
\* a call under way can always take its next step, a returned call leaves
\* none of the pids it stopped registered, and neither does a tracked call
\* that has ended.
C35_UnregisterIdempotent ==
  /\ \A s \in Sessions, p \in Pids :
       p \notin Registered(processes, s) => unregister(processes, s, p) = processes
  /\ \A t \in Threads :
       /\ calls[t].pc \in {"phase1", "poll", "phase2"}
            => ENABLED (Phase1Step(t) \/ Phase1End(t) \/ PollExit(t)
                        \/ Phase2Step(t) \/ StopReturn(t))
       /\ calls[t].returned
            => Stopped(calls[t]) \cap Registered(processes, calls[t].session) = {}
  /\ \A c \in TrackedCalls :
       /\ (trk[c].pc = "waiting" /\ trk[c].pid \notin alive) => ENABLED TrkReturn(c)
       /\ (trk[c].pc = "done" /\ trk[c].pid # 0)
            => trk[c].pid \notin Registered(processes, trk[c].session)

\* C35 witness: both calls took the same pid in their snapshot; one found it
\* dead at its first probe, the other after its SIGTERM, the subprocess's
\* own call has returned: three unregister calls for one pid, while the
\* other subprocess is still registered.
C35_Witness ==
  /\ calls["t1"].returned /\ calls["t2"].returned
  /\ \E p \in Pids :
       /\ p \in Range(calls["t1"].terminated)
       /\ p \in Range(calls["t2"].already_dead)
       /\ \E c \in TrackedCalls : trk[c].pid = p /\ trk[c].pc = "done"
  /\ processes # << >>

\* ------------------------------------------------------------------------
\* The locks of the N-worker mode: process_and_save in the pool threads
\* (rad_dataframe.py lines 1034-1091), save_progress, append_record_to_csv
\* and the semaphore around the remote OCR call
\* ------------------------------------------------------------------------
lkOther ==
  <<pmVars, sseVars, src, journal, ckfile, errfile, out, nrun, orphans,
    csvVars, cfg, ocr, script, tqVars, fnVars, trkVars>>

\* a pool thread without work item; held are the locks it has not released
IdleLk == [pc |-> "idle", idx |-> 0, a |-> 1, nrec |-> 0, err |-> FALSE, held |-> {}]

\* lines 1025, 1072-1077: PDF_EXTRACTION_WORKERS > 1 and more than one item
\* to process: every item is submitted to the pool
InitLocks ==
  /\ InitPMVars /\ InitSSEVars /\ InitCsvIdle /\ InitTqIdle /\ InitFnIdle /\ InitTrkIdle
  /\ src \in {s \in Sources : s.workers = 2 /\ Len(s.items) > 1}
  /\ journal = <<>> /\ ckfile = [state |-> "absent", keys |-> {}] /\ errfile = <<>>
  /\ out = <<>> /\ nrun = 1 /\ orphans = {}
  /\ run = [pc |-> "par", todo |-> [i \in 1..Len(src.items) |-> i],
            processed_keys |-> {}, completed_count |-> 0, futures_done |-> 0]
  /\ wk = [w \in WorkerIds |-> IdleLk]
  /\ cfg \in [mistral_key : {TRUE}, openai_key : {FALSE}, limit : 1..MaxLimit]
  /\ sem = cfg.limit
  /\ ocr = [w \in OcrThreads |-> IdleOcr]
  /\ script = <<>>

\* the lock a thread at this position is about to take, "none" elsewhere
\* (lines 1040, 353, 1050, 1055, 1060, 326, 1065)
WaitsFor(pc) ==
  CASE pc = "chk" -> "processed_keys_lock"
    [] pc = "csv" -> "_CSV_LOCK"
    [] pc = "cnt" -> "records_count_lock"
    [] pc = "errs" -> "errors_lock"
    [] pc = "mark" -> "processed_keys_lock"
    [] pc = "prog" -> "_PROGRESS_LOCK"
    [] pc = "row" -> "records_count_lock"
    [] OTHER -> "none"

\* where the thread is once it has the lock; save_progress is called with
\* processed_keys_lock held (lines 1060-1062)
Inside(pc) ==
  CASE pc = "chk" -> "chk_in"
    [] pc = "csv" -> "csv_in"
    [] pc = "cnt" -> "cnt_in"
    [] pc = "errs" -> "errs_in"
    [] pc = "mark" -> "prog"
    [] pc = "prog" -> "prog_in"
    [] pc = "row" -> "row_in"
    [] OTHER -> pc

Holder(lock) == {w \in WorkerIds : lock \in wk[w].held}

\* Faulty variant: the lock is released by hand after the body, so a body
\* that raises leaves it locked.
with_exit_not_on_raise(held, lock, outcome) ==
  IF outcome = "raises" THEN held ELSE held \ {lock}

\* leaving a `with lock:` block, by its end or by an exception
with_exit(held, lock, outcome) == held \ {lock}

\* lines 1046-1062: what process_and_save does next with result f: append
\* the records, then extend the errors, then mark the item, then the marker
AfterItem(f, key) ==
  IF f.nrec > 0 THEN "csv"
  ELSE IF f.err THEN "errs"
  ELSE IF key # NoKey THEN "mark"
  ELSE "row"

\* process_and_save returns or raises: the future is done, the pool thread
\* is free for the next work item
FutureDone(w, f) ==
  /\ wk' = [wk EXCEPT ![w] = [IdleLk EXCEPT !.held = f.held]]
  /\ run' = [run EXCEPT !.futures_done = @ + 1]

\* a pool thread takes the next submitted item
LkTake(w) ==
  /\ run.pc = "par"
  /\ wk[w].pc = "idle"
  /\ run.todo # <<>>
  /\ wk' = [wk EXCEPT ![w] = [IdleLk EXCEPT !.pc = "chk", !.idx = Head(run.todo),
                                            !.held = wk[w].held]]
  /\ run' = [run EXCEPT !.todo = Tail(@)]
  /\ UNCHANGED <<sem, lkOther>>

\* threading.Lock.acquire: blocks while another thread holds the lock
LkAcquire(w) ==
  /\ WaitsFor(wk[w].pc) # "none"
  /\ Holder(WaitsFor(wk[w].pc)) = {}
  /\ wk' = [wk EXCEPT ![w].held = @ \cup {WaitsFor(wk[w].pc)},
                      ![w].pc = Inside(wk[w].pc)]
  /\ UNCHANGED <<run, sem, lkOther>>

\* lines 1040-1042: the double check; a key that is in the set ends the call
LkChecked(w) ==
  LET f == [wk[w] EXCEPT !.held = with_exit(@, "processed_keys_lock", "ends")]
      key == src.items[f.idx].key
  IN /\ wk[w].pc = "chk_in"
     /\ IF key # NoKey /\ key \in run.processed_keys
        THEN FutureDone(w, f)
        ELSE wk' = [wk EXCEPT ![w] = [f EXCEPT !.pc = "att"]] /\ UNCHANGED run
     /\ UNCHANGED <<sem, lkOther>>

\* lines 869-924: the loop over the attachments; an extraction goes to the
\* remote provider first
LkAttachment(w) ==
  LET f == wk[w]
      item == src.items[f.idx]
  IN /\ f.pc = "att"
     /\ wk' = [wk EXCEPT ![w] =
          IF f.a > Len(item.atts) THEN [f EXCEPT !.pc = AfterItem(f, item.key)]
          ELSE IF item.atts[f.a] = "nonpdf" THEN [f EXCEPT !.a = @ + 1]
          ELSE IF item.atts[f.a] = "missing" THEN [f EXCEPT !.a = @ + 1, !.err = TRUE]
          ELSE [f EXCEPT !.pc = "sem"]]
     /\ UNCHANGED <<run, sem, lkOther>>

\* line 524: with MISTRAL_SEMAPHORE, enter
LkSemAcquire(w) ==
  /\ wk[w].pc = "sem"
  /\ sem > 0
  /\ sem' = sem - 1
  /\ wk' = [wk EXCEPT ![w].pc = "call"]
  /\ UNCHANGED <<run, lkOther>>

\* lines 524-640 and 896-924: the provider call returns or raises, the
\* permit is given back; the attachment ends as a record or as an error
LkProviderReturns(w) ==
  LET f == wk[w]
      kind == src.items[f.idx].atts[f.a]
  IN /\ f.pc = "call"
     /\ sem' = ReleaseOn(IF kind = "ok" THEN "ok" ELSE "transient", sem)
     /\ wk' = [wk EXCEPT ![w] =
          IF kind = "ok" THEN [f EXCEPT !.pc = "att", !.a = @ + 1, !.nrec = @ + 1]
          ELSE [f EXCEPT !.pc = "att", !.a = @ + 1, !.err = TRUE]]
     /\ UNCHANGED <<run, lkOther>>

\* lines 353-366: the row is written, or the write raises and the exception
\* leaves process_and_save through the `with` block
LkAppend(w, o) ==
  LET f == [wk[w] EXCEPT !.held = with_exit(@, "_CSV_LOCK", o)]
  IN /\ wk[w].pc = "csv_in"
     /\ IF o = "raises"
        THEN FutureDone(w, f)
        ELSE wk' = [wk EXCEPT ![w] = [f EXCEPT !.pc = "cnt"]] /\ UNCHANGED run
     /\ UNCHANGED <<sem, lkOther>>

\* lines 1050-1051: records_count[0] += 1, next record
LkCounted(w) ==
  LET f == [wk[w] EXCEPT !.held = with_exit(@, "records_count_lock", "ends"),
                         !.nrec = @ - 1]
  IN /\ wk[w].pc = "cnt_in"
     /\ wk' = [wk EXCEPT ![w] = [f EXCEPT !.pc = AfterItem(f, src.items[f.idx].key)]]
     /\ UNCHANGED <<run, sem, lkOther>>

\* lines 1054-1056: all_errors.extend
LkErrors(w) ==
  LET f == [wk[w] EXCEPT !.held = with_exit(@, "errors_lock", "ends"), !.err = FALSE]
  IN /\ wk[w].pc = "errs_in"
     /\ wk' = [wk EXCEPT ![w] = [f EXCEPT !.pc = AfterItem(f, src.items[f.idx].key)]]
     /\ UNCHANGED <<run, sem, lkOther>>

\* lines 1061 and 326-335: the key is added and the checkpoint file is
\* written, whether the write works or not; _PROGRESS_LOCK is released
LkProgressSaved(w) ==
  /\ wk[w].pc = "prog_in"
  /\ run' = [run EXCEPT !.processed_keys = @ \cup {src.items[wk[w].idx].key}]
  /\ wk' = [wk EXCEPT ![w].held = with_exit(@, "_PROGRESS_LOCK", "ends"),
                      ![w].pc = "mark_out"]
  /\ UNCHANGED <<sem, lkOther>>

\* line 1062, end of `with processed_keys_lock`
LkMarked(w) ==
  /\ wk[w].pc = "mark_out"
  /\ wk' = [wk EXCEPT ![w].held = with_exit(@, "processed_keys_lock", "ends"),
                      ![w].pc = "row"]
  /\ UNCHANGED <<run, sem, lkOther>>

\* lines 1065-1069: the counter and the row marker, then the call returns
LkRow(w) ==
  LET f == [wk[w] EXCEPT !.held = with_exit(@, "records_count_lock", "ends")]
  IN /\ wk[w].pc = "row_in"
     /\ wk' = [wk EXCEPT ![w] = [IdleLk EXCEPT !.held = f.held]]
     /\ run' = [run EXCEPT !.futures_done = @ + 1, !.completed_count = @ + 1]
     /\ UNCHANGED <<sem, lkOther>>

\* lines 1080-1093: every future is done, the executor is left
LkFinish ==
  /\ run.pc = "par"
  /\ run.futures_done = Len(src.items)
  /\ run' = [run EXCEPT !.pc = "done"]
  /\ UNCHANGED <<wk, sem, lkOther>>

LkStep(w) ==
  \/ LkTake(w)
  \/ LkAcquire(w)
  \/ LkChecked(w)
  \/ LkAttachment(w)
  \/ LkSemAcquire(w)
  \/ LkProviderReturns(w)
  \/ \E o \in {"written", "raises"} : LkAppend(w, o)
  \/ LkCounted(w)
  \/ LkErrors(w)
  \/ LkProgressSaved(w)
  \/ LkMarked(w)
  \/ LkRow(w)

NextLocks ==
  \/ \E w \in WorkerIds : LkTake(w)
  \/ \E w \in WorkerIds : LkAcquire(w)
  \/ \E w \in WorkerIds : LkChecked(w)
  \/ \E w \in WorkerIds : LkAttachment(w)
  \/ \E w \in WorkerIds : LkSemAcquire(w)
  \/ \E w \in WorkerIds : LkProviderReturns(w)
  \/ \E w \in WorkerIds, o \in {"written", "raises"} : LkAppend(w, o)
  \/ \E w \in WorkerIds : LkCounted(w)
  \/ \E w \in WorkerIds : LkErrors(w)
  \/ \E w \in WorkerIds : LkProgressSaved(w)
  \/ \E w \in WorkerIds : LkMarked(w)
  \/ \E w \in WorkerIds : LkRow(w)
  \/ LkFinish

\* every runnable thread is scheduled in the end, and every provider call
\* returns: each pool thread and the main thread take a step that stays
\* possible
SpecLocks ==
  /\ InitLocks
  /\ [][NextLocks]_vars
  /\ \A w \in WorkerIds : WF_vars(LkStep(w))
  /\ WF_vars(LkFinish)

\* the threads that hold what thread w is waiting for; empty when w can go on
BlockedBy(w) ==
  IF WaitsFor(wk[w].pc) # "none" THEN Holder(WaitsFor(wk[w].pc)) \ {w}
  ELSE IF wk[w].pc = "sem" /\ sem = 0 THEN {v \in WorkerIds : wk[v].pc = "call"}
  ELSE {}

\* a set of threads each of which waits for something only its members hold
Deadlocked(S) ==
  /\ S # {}
  /\ \A w \in S : \/ BlockedBy(w) # {} /\ BlockedBy(w) \subseteq S
                  \/ wk[w].pc = "sem" /\ sem = 0 /\ BlockedBy(w) = {}

\* the only nesting: processed_keys_lock, then _PROGRESS_LOCK inside it
LockOrder(w) ==
  LET f == wk[w]
  IN /\ f.held \in {{}, {"processed_keys_lock"}, {"_CSV_LOCK"}, {"records_count_lock"},
                    {"errors_lock"}, {"processed_keys_lock", "_PROGRESS_LOCK"}}
     /\ WaitsFor(f.pc) = "_PROGRESS_LOCK" => f.held = {"processed_keys_lock"}
     /\ WaitsFor(f.pc) \notin {"none", "_PROGRESS_LOCK"} => f.held = {}
     /\ f.pc \in {"idle", "att", "sem", "call"} => f.held = {}

\* C37: in the N-worker mode a thread takes a second lock only in the order
\* processed_keys_lock, _PROGRESS_LOCK, and holds no lock while it waits for
\* the semaphore or is inside the provider call; no set of threads waits for
\* one another; and when every provider call returns, every submitted item's
\* call ends and the run leaves the pool.
C37_NoDeadlockAndCompletion ==
  /\ [](/\ \A w \in WorkerIds : LockOrder(w)
        /\ \A S \in SUBSET WorkerIds : ~Deadlocked(S)
        /\ sem >= 0)
  /\ <>(run.pc = "done" /\ run.futures_done = Len(src.items) /\ run.todo = <<>>)

\* C37 witness: one thread writes the checkpoint with both locks held while
\* the other waits for processed_keys_lock.
C37_Witness ==
  \E w, v \in WorkerIds :
    /\ wk[w].pc = "prog_in"
    /\ wk[w].held = {"processed_keys_lock", "_PROGRESS_LOCK"}
    /\ wk[v].pc \in {"chk", "mark"}
    /\ BlockedBy(v) = {w}
====
